---- MODULE Spec2Model ----
(***************************************************************************)
(* A model of pg_ai_query: the configuration manager (src/src/config.cpp), *)
(* the generate_query entry point (src/unnamed/part_008) and the SQL       *)
(* helpers of utils.cpp, written to check the statements of spec.md.       *)
(***************************************************************************)
EXTENDS Integers, Sequences, FiniteSets, TLC

(***************************************************************************)
(* Values                                                                  *)
(***************************************************************************)

\* A null pointer (const char* / const ProviderConfig*).
NULL == "<nullptr>"

\* enum class Provider, in declaration order.
Providers == <<"OPENAI", "ANTHROPIC", "GEMINI">>

KnownProviders == {Providers[i] : i \in 1..Len(Providers)}

\* Program constants (constants.hpp).
DEFAULT_OPENAI_MAX_TOKENS == 16384

DEFAULT_ANTHROPIC_MAX_TOKENS == 8192

DEFAULT_MAX_TOKENS == 4096

\* DEFAULT_TEMPERATURE = 0.7, kept in hundredths.
DEFAULT_TEMPERATURE == 70

DEFAULT_MAX_QUERY_LENGTH == 4000

DEFAULT_REQUEST_TIMEOUT_MS == 30000

DEFAULT_MAX_RETRIES == 3

DEFAULT_LIMIT == 1000

(***************************************************************************)
(* ProviderConfig and Configuration                                        *)
(***************************************************************************)

ProviderConfig(p, model, max_tokens, temperature) ==
  [provider |-> p, api_key |-> "", default_model |-> model,
   default_max_tokens |-> max_tokens, default_temperature |-> temperature,
   api_endpoint |-> ""]

getProviderDefaultConfigValues(p) ==
  CASE p = "OPENAI" -> ProviderConfig(p, "gpt-4o", DEFAULT_OPENAI_MAX_TOKENS, DEFAULT_TEMPERATURE)
    [] p = "ANTHROPIC" -> ProviderConfig(p, "claude-sonnet-4-5-20250929",
                                         DEFAULT_ANTHROPIC_MAX_TOKENS, DEFAULT_TEMPERATURE)
    [] p = "GEMINI" -> ProviderConfig(p, "gemini-2.5-flash", DEFAULT_MAX_TOKENS,
                                      DEFAULT_TEMPERATURE)
    [] OTHER -> ProviderConfig("UNKNOWN", "", DEFAULT_MAX_TOKENS, DEFAULT_TEMPERATURE)

\* Configuration::Configuration(): the defaults, with one OpenAI entry that
\* has no credential.
Configuration ==
  LET dp == ProviderConfig("OPENAI", "gpt-4o", DEFAULT_MAX_TOKENS, DEFAULT_TEMPERATURE)
  IN [default_provider |-> dp,
      providers |-> <<dp>>,
      log_level |-> "INFO",
      enable_logging |-> FALSE,
      request_timeout_ms |-> DEFAULT_REQUEST_TIMEOUT_MS,
      max_retries |-> DEFAULT_MAX_RETRIES,
      enforce_limit |-> TRUE,
      default_limit |-> DEFAULT_LIMIT,
      max_query_length |-> DEFAULT_MAX_QUERY_LENGTH,
      show_explanation |-> TRUE,
      show_warnings |-> TRUE,
      show_suggested_visualization |-> FALSE,
      use_formatted_response |-> FALSE]

\* The index of provider p's entry in a provider list, 0 when it has none
\* (the pointer the two lookups return, nullptr as 0).
FindProvider(providers, p) ==
  LET hits == {i \in 1..Len(providers) : providers[i].provider = p}
  IN IF hits = {} THEN 0 ELSE CHOOSE i \in hits : \A j \in hits : i <= j

\* getProviderConfigMutable answering the first entry, whatever its provider.
getProviderConfigMutable_First(cfg, p) == IF Len(cfg.providers) > 0 THEN 1 ELSE 0

getProviderConfigMutable(cfg, p) == FindProvider(cfg.providers, p)

stringToProvider(s) ==
  CASE s \in {"openai", "OPENAI", "OpenAI"} -> "OPENAI"
    [] s \in {"anthropic", "ANTHROPIC", "Anthropic"} -> "ANTHROPIC"
    [] s \in {"gemini", "GEMINI", "Gemini"} -> "GEMINI"
    [] OTHER -> "UNKNOWN"

providerToString(p) ==
  CASE p = "OPENAI" -> "openai"
    [] p = "ANTHROPIC" -> "anthropic"
    [] p = "GEMINI" -> "gemini"
    [] OTHER -> "unknown"

(***************************************************************************)
(* The configuration document: the lines of the file, already split at     *)
(* the newline and trimmed as parseConfig trims them.                      *)
(***************************************************************************)

Sec(n) == [t |-> "section", name |-> n, key |-> "", val |-> ""]

Kv(k, v) == [t |-> "kv", name |-> "", key |-> k, val |-> v]

\* A line that is neither a section header nor key = value.
Garbage == [t |-> "garbage", name |-> "", key |-> "", val |-> ""]

Blank == [t |-> "blank", name |-> "", key |-> "", val |-> ""]

\* std::stoi: the value of the leading digits, std::invalid_argument when
\* the text does not start with a number.
stoi(v) ==
  CASE v = "5" -> [ok |-> TRUE, n |-> 5]
    [] v = "500" -> [ok |-> TRUE, n |-> 500]
    [] v = "0" -> [ok |-> TRUE, n |-> 0]
    [] v = "12abc" -> [ok |-> TRUE, n |-> 12]
    [] OTHER -> [ok |-> FALSE, n |-> 0]

\* std::stod, the value kept in hundredths.
stod(v) ==
  CASE v = "0.85" -> [ok |-> TRUE, n |-> 85]
    [] v = "0" -> [ok |-> TRUE, n |-> 0]
    [] v = "5" -> [ok |-> TRUE, n |-> 500]
    [] OTHER -> [ok |-> FALSE, n |-> 0]

parseBooleanValue(v) == v \in {"true", "TRUE", "True", "yes", "YES", "Yes", "1"}

isValidSection(s) ==
  s \in {"response", "query", "general", "gemini", "openai", "anthropic"}

\* parseProviderSection appending an entry without looking for one.
withProviderEntry_AlwaysAppends(cfg, p) ==
  [cfg EXCEPT !.providers = Append(@, getProviderDefaultConfigValues(p))]

\* parseProviderSection, first half: the entry of provider p, made from the
\* provider's defaults and appended when the list has none.
withProviderEntry(cfg, p) ==
  IF getProviderConfigMutable(cfg, p) = 0
  THEN [cfg EXCEPT !.providers = Append(@, getProviderDefaultConfigValues(p))]
  ELSE cfg

\* parseProviderSection, second half: the key stored in entry i.
\* [ok, cfg]; ok is FALSE when std::stoi or std::stod throws.
setProviderKey(cfg, i, key, value) ==
  CASE key = "api_key" -> [ok |-> TRUE, cfg |-> [cfg EXCEPT !.providers[i].api_key = value]]
    [] key = "default_model" ->
         [ok |-> TRUE, cfg |-> [cfg EXCEPT !.providers[i].default_model = value]]
    [] key = "max_tokens" ->
         [ok |-> stoi(value).ok,
          cfg |-> IF stoi(value).ok
                  THEN [cfg EXCEPT !.providers[i].default_max_tokens = stoi(value).n]
                  ELSE cfg]
    [] key = "temperature" ->
         [ok |-> stod(value).ok,
          cfg |-> IF stod(value).ok
                  THEN [cfg EXCEPT !.providers[i].default_temperature = stod(value).n]
                  ELSE cfg]
    [] key = "api_endpoint" ->
         [ok |-> TRUE, cfg |-> [cfg EXCEPT !.providers[i].api_endpoint = value]]
    [] OTHER -> [ok |-> TRUE, cfg |-> cfg]

providerKeyAt(cfg, p, key, value) ==
  setProviderKey(cfg, getProviderConfigMutable(cfg, p), key, value)

parseProviderSection(cfg, key, value, p) ==
  IF p = "UNKNOWN" THEN [ok |-> TRUE, cfg |-> cfg]
  ELSE providerKeyAt(withProviderEntry(cfg, p), p, key, value)

\* The keys of [general], [query] and [response] that std::stoi reads.
isNumericKey(section, key) ==
  \/ section = "general" /\ key \in {"request_timeout_ms", "max_retries"}
  \/ section = "query" /\ key \in {"default_limit", "max_query_length"}

\* The key of a [general], [query] or [response] section stored in cfg
\* (num is std::stoi's value); any other key leaves cfg as it is.
setSectionKey(cfg, section, key, value, num) ==
  CASE section = "general" /\ key = "log_level" -> [cfg EXCEPT !.log_level = value]
    [] section = "general" /\ key = "enable_logging" ->
         [cfg EXCEPT !.enable_logging = parseBooleanValue(value)]
    [] section = "general" /\ key = "request_timeout_ms" ->
         [cfg EXCEPT !.request_timeout_ms = num]
    [] section = "general" /\ key = "max_retries" -> [cfg EXCEPT !.max_retries = num]
    [] section = "query" /\ key = "enforce_limit" ->
         [cfg EXCEPT !.enforce_limit = parseBooleanValue(value)]
    [] section = "query" /\ key = "default_limit" -> [cfg EXCEPT !.default_limit = num]
    [] section = "query" /\ key = "max_query_length" ->
         IF num > 0 THEN [cfg EXCEPT !.max_query_length = num] ELSE cfg
    [] section = "response" /\ key = "show_explanation" ->
         [cfg EXCEPT !.show_explanation = parseBooleanValue(value)]
    [] section = "response" /\ key = "show_warnings" ->
         [cfg EXCEPT !.show_warnings = parseBooleanValue(value)]
    [] section = "response" /\ key = "show_suggested_visualization" ->
         [cfg EXCEPT !.show_suggested_visualization = parseBooleanValue(value)]
    [] section = "response" /\ key = "use_formatted_response" ->
         [cfg EXCEPT !.use_formatted_response = parseBooleanValue(value)]
    [] OTHER -> cfg

\* The body of parseConfig's loop for one key = value line inside a valid
\* section: the general / query / response keys, then parseProviderSection.
\* [ok, cfg]; ok is FALSE when std::stoi or std::stod throws.
parseKeyValue(cfg, section, key, value) ==
  IF isNumericKey(section, key) /\ ~stoi(value).ok THEN [ok |-> FALSE, cfg |-> cfg]
  ELSE parseProviderSection(setSectionKey(cfg, section, key, value, stoi(value).n),
                            key, value, stringToProvider(section))

\* The loop goes on after a key that was stored, and is left by the
\* exception otherwise.
afterKeyValue(ps, r) ==
  [ps EXCEPT !.cfg = r.cfg, !.ret = IF r.ok THEN "running" ELSE "throw"]

\* Every section header that is not a known section fails the parse.
parseLine_StrictSections(ps, line) ==
  IF line.t = "section" /\ ~isValidSection(line.name) /\ ps.ret = "running"
  THEN [ps EXCEPT !.ret = "false"]
  ELSE IF line.t = "section" /\ ps.ret = "running" THEN [ps EXCEPT !.section = line.name]
  ELSE IF line.t = "kv" /\ ps.ret = "running" /\ isValidSection(ps.section)
  THEN afterKeyValue(ps, parseKeyValue(ps.cfg, ps.section, line.key, line.val))
  ELSE IF line.t = "garbage" /\ ps.ret = "running" THEN [ps EXCEPT !.ret = "false"]
  ELSE ps

\* One turn of parseConfig's loop: the line `line` read in section
\* ps.section with config_ = ps.cfg.  ret stays "running" while the loop
\* goes on; it becomes "false" (a line that is not INI) or "throw"
\* (std::stoi, std::stod).
parseLine(ps, line) ==
  CASE ps.ret # "running" -> ps
    [] line.t = "blank" -> ps
    [] line.t = "section" -> [ps EXCEPT !.section = line.name]
    [] line.t = "garbage" -> [ps EXCEPT !.ret = "false"]
    [] OTHER ->
         IF ps.section = "" \/ ~isValidSection(ps.section) THEN ps
         ELSE afterKeyValue(ps, parseKeyValue(ps.cfg, ps.section, line.key, line.val))

\* parseConfig's loop over the lines.
parseLines(lines, cfg) ==
  LET at[i \in 0..Len(lines)] ==
        IF i = 0 THEN [ret |-> "running", section |-> "", cfg |-> cfg]
        ELSE parseLine(at[i - 1], lines[i])
  IN at[Len(lines)]

\* The end of parseConfig: default_provider becomes the first entry.
parseEnd(end) ==
  IF end.ret # "running" THEN [ret |-> end.ret, cfg |-> end.cfg]
  ELSE [ret |-> "true",
        cfg |-> IF Len(end.cfg.providers) > 0
                THEN [end.cfg EXCEPT !.default_provider = end.cfg.providers[1]]
                ELSE end.cfg]

\* bool parseConfig(content): ret is "true", "false" or "throw", cfg what
\* config_ holds when the function is left.
parseConfig(content) == parseEnd(parseLines(content, Configuration))

(***************************************************************************)
(* ConfigManager: the static state {config_, config_loaded_} of            *)
(* config.cpp and the base snapshot the session overrides are derived      *)
(* from.  Every operation takes the state st and returns the new state,    *)
(* what the call returned ("throw" when it raised) and how many times it   *)
(* called read_file.                                                       *)
(***************************************************************************)

\* What read_file finds at a path that does not exist.
Missing == <<[t |-> "nofile", name |-> "", key |-> "", val |-> ""]>>

InitialState ==
  [config_ |-> Configuration, config_loaded_ |-> FALSE, base_config_ |-> Configuration]

\* The snapshot of a successfully parsed file (spec.md 4.1, loading contract).
cacheBase(st) == [st EXCEPT !.base_config_ = st.config_]

\* afterParse without the snapshot of the parsed file.
afterParse_NoSnapshot(st, r) ==
  IF r.ret = "true"
  THEN [st |-> [st EXCEPT !.config_ = r.cfg, !.config_loaded_ = TRUE],
        ret |-> "true", nread |-> 1]
  ELSE [st |-> [st EXCEPT !.config_ = r.cfg], ret |-> r.ret, nread |-> 1]

\* loadConfig(path) after parseConfig returned r.
afterParse(st, r) ==
  IF r.ret = "true"
  THEN [st |-> cacheBase([st EXCEPT !.config_ = r.cfg, !.config_loaded_ = TRUE]),
        ret |-> "true", nread |-> 1]
  ELSE [st |-> [st EXCEPT !.config_ = r.cfg], ret |-> r.ret, nread |-> 1]

\* loadConfig(path) answering false where there is no file.
loadConfigPath_FalseWhenMissing(st, content) ==
  IF content = Missing
  THEN [st |-> st, ret |-> "false", nread |-> 1]
  ELSE afterParse(st, parseConfig(content))

\* bool loadConfig(const std::string& config_path)
loadConfigPath(st, content) ==
  IF content = Missing
  THEN [st |-> st, ret |-> "throw", nread |-> 1]
  ELSE afterParse(st, parseConfig(content))

\* bool loadConfig(): the file of the home directory, false when the home
\* directory cannot be determined.
loadConfig(st, env) ==
  IF ~env.home_ok
  THEN [st |-> st, ret |-> "false", nread |-> 0]
  ELSE loadConfigPath(st, env.file)

\* getConfig after its loadConfig() returned l: the result is not looked at.
afterLazyLoad(l) == [l EXCEPT !.ret = IF @ = "throw" THEN "throw" ELSE "config"]

\* getConfig loading the file whatever config_loaded_ says.
getConfig_AlwaysLoads(st, env) == afterLazyLoad(loadConfig(st, env))

\* const Configuration& getConfig()
getConfig(st, env) ==
  IF ~st.config_loaded_
  THEN afterLazyLoad(loadConfig(st, env))
  ELSE [st |-> st, ret |-> "config", nread |-> 0]

\* The loop of getProviderConfig answering the first entry it meets.
lookupProvider_First(g, p) ==
  [st |-> g.st, nread |-> g.nread, threw |-> g.ret = "throw",
   ret |-> IF g.ret = "throw" \/ Len(g.st.config_.providers) = 0 THEN 0 ELSE 1]

\* getProviderConfig's loop over config_.providers, g being what the lazy
\* load left: ret is the index of the entry, 0 for nullptr.
lookupProvider(g, p) ==
  [st |-> g.st, nread |-> g.nread, threw |-> g.ret = "throw",
   ret |-> IF g.ret = "throw" THEN 0 ELSE FindProvider(g.st.config_.providers, p)]

\* getProviderConfig answering nullptr for every provider.
getProviderConfig_Null(st, env, p) == [lookupProvider(getConfig(st, env), p) EXCEPT !.ret = 0]

\* const ProviderConfig* getProviderConfig(Provider)
getProviderConfig(st, env, p) == lookupProvider(getConfig(st, env), p)

\* reset() leaving config_loaded_ as it is.
reset_KeepsLoaded(st) == [InitialState EXCEPT !.config_loaded_ = st.config_loaded_]

\* void reset()
reset(st) == InitialState

\* One override stored in the entry of provider p.
setKey(cfg, p, key) ==
  [cfg EXCEPT !.providers[getProviderConfigMutable(cfg, p)].api_key = key]

\* One override with the empty string taken as a credential.
applyKey_EmptyOverrides(cfg, p, key) ==
  IF key = NULL THEN cfg ELSE setKey(withProviderEntry(cfg, p), p, key)

\* One override: a null or empty key changes nothing; otherwise the entry
\* of the provider (made from its defaults when there is none) gets the key.
applyKey(cfg, p, key) ==
  IF key = NULL \/ key = "" THEN cfg ELSE setKey(withProviderEntry(cfg, p), p, key)

\* The effective configuration: the base with the three overrides applied.
effective(base, o) ==
  applyKey(applyKey(applyKey(base, "OPENAI", o[1]), "ANTHROPIC", o[2]), "GEMINI", o[3])

\* applyGucOverrides after the lazy load returned l: config_ is rebuilt
\* from the base.
rebuild(l, o) ==
  IF l.ret = "throw" THEN l
  ELSE [st |-> [l.st EXCEPT !.config_ = effective(l.st.base_config_, o)],
        ret |-> "void", nread |-> l.nread]

\* void applyGucOverrides(openai_key, anthropic_key, gemini_key): loads the
\* file on first use, then rebuilds config_ from the base.
applyGucOverrides(st, env, o) ==
  IF st.config_loaded_
  THEN rebuild([st |-> st, ret |-> "true", nread |-> 0], o)
  ELSE rebuild(loadConfig(st, env), o)

(***************************************************************************)
(* The configuration files the model draws from (the fixtures of the       *)
(* ConfigManager tests, and documents that fail to parse).                 *)
(***************************************************************************)

DocEmpty == <<>>

DocMinimal == <<Sec("openai"), Kv("api_key", "sk-file-o")>>

DocAnthropicOnly == <<Blank, Sec("anthropic"), Kv("api_key", "sk-file-a")>>

DocTwo ==
  <<Sec("anthropic"), Kv("api_key", "sk-file-a"), Sec("openai"), Kv("api_key", "sk-file-o")>>

DocAllThree ==
  <<Sec("general"), Kv("max_retries", "5"), Kv("enable_logging", "true"),
    Sec("query"), Kv("enforce_limit", "false"), Kv("default_limit", "500"),
    Kv("max_query_length", "5"),
    Sec("openai"), Kv("api_key", "sk-file-o"), Kv("max_tokens", "500"),
    Sec("anthropic"), Kv("api_key", "sk-file-a"),
    Sec("gemini"), Kv("api_key", "sk-file-g"), Kv("temperature", "0.85")>>

DocGeminiNoKey == <<Sec("gemini"), Kv("default_model", "gemini-2.0-flash")>>

DocUnknownSection ==
  <<Kv("api_key", "sk-stray"), Sec("ollama"), Kv("api_key", "sk-stray"),
    Sec("response"), Kv("use_formatted_response", "yes")>>

DocRepeatedSection ==
  <<Sec("anthropic"), Kv("api_key", "sk-file-a"), Sec("query"), Kv("max_query_length", "0"),
    Sec("anthropic"), Kv("api_key", "sk-file-b")>>

DocGarbage == <<Sec("anthropic"), Kv("api_key", "sk-file-a"), Garbage>>

DocBadNumber ==
  <<Sec("gemini"), Kv("api_key", "sk-file-g"), Sec("general"), Kv("max_retries", "abc")>>

DocBadTokens == <<Sec("anthropic"), Kv("max_tokens", "many")>>

Docs ==
  {DocEmpty, DocMinimal, DocAnthropicOnly, DocTwo, DocAllThree, DocGeminiNoKey,
   DocUnknownSection, DocRepeatedSection, DocGarbage, DocBadNumber, DocBadTokens}

\* What SET pg_ai.<provider>_api_key leaves in a GUC variable.
GucValues == {NULL, "", "sk-guc"}

Overrides == {<<a, b, c>> : a \in GucValues, b \in GucValues, c \in GucValues}

NoOverride == <<NULL, NULL, NULL>>

\* The files loadConfig(path) is called on: the file of the home directory,
\* a path that does not exist, and two files that do not parse.
Paths == {"home", "nonexistent", "garbage", "badnumber"}

\* How many accessor calls the model follows from the unloaded state.
MaxCalls == 3

(***************************************************************************)
(* State                                                                   *)
(***************************************************************************)

VARIABLES
  file,             \* the content of ~/.pg_ai.config, Missing when there is none
  home_ok,          \* getHomeDirectory() finds a directory
  config_,          \* ConfigManager::config_
  config_loaded_,   \* ConfigManager::config_loaded_
  base_config_,     \* the snapshot of the parsed file
  last,             \* the last call: what it was given and what it returned
  reads,            \* read_file calls made by the accessors since the unloaded state
  calls,            \* accessor calls since the unloaded state
  pc,               \* per caller: where it is inside getConfig / getProviderConfig
  op,               \* per caller: the accessor it called
  ln,               \* per caller: the lines its parseConfig has read
  section,          \* per caller: current_section of its parseConfig
  parses,           \* parseConfig runs started
  result,           \* per caller: what the accessor returned
  guc,              \* pg_ai.openai_api_key, pg_ai.anthropic_api_key, pg_ai.gemini_api_key
  stage,            \* where the generate_query invocation is
  trace,            \* the stages the invocation has run, in the order they ran
  req,              \* the QueryRequest of the invocation
  sel,              \* the ProviderSelectionResult of the invocation
  outcome,          \* the QueryResult of the invocation
  failed_at,        \* the stage that failed, "" when none did
  sql,              \* the SQL text of the answer, as its characters
  nchunks,          \* the pieces the text was put together from
  verdict,          \* what is_select_only_query said of it, "none" before
  once,             \* the result after the row-limit step
  twice,            \* the result after the row-limit step was applied to `once`
  translation,      \* a formatAPIError call: its arguments and what it returned
  parsing,          \* a parseQueryResponse call: the answer and the QueryResult
  formatting,       \* a formatResponse call: the result, the flags and the text
  wrapping,         \* a word-wrapped comment block: the text and its lines
  inifile,          \* a configuration document: its raw lines and what loading it left
  creation,         \* a createClient call: its arguments and the AIClientResult
  spi               \* the SPIConnection objects and the SPI calls they made

cfgVars == <<file, home_ok, config_, config_loaded_, base_config_, last, reads, calls>>

concVars == <<pc, op, ln, section, parses, result>>

genVars == <<guc, stage, trace, req, sel, outcome, failed_at>>

sqlVars == <<sql, nchunks, verdict, once, twice>>

textVars == <<translation, parsing, formatting, wrapping>>

unitVars == <<inifile, creation, spi>>

vars == <<cfgVars, concVars, genVars, sqlVars, textVars, unitVars>>

St == [config_ |-> config_, config_loaded_ |-> config_loaded_, base_config_ |-> base_config_]

Env == [file |-> file, home_ok |-> home_ok]

ContentAt(path) ==
  CASE path = "home" -> file
    [] path = "garbage" -> DocGarbage
    [] path = "badnumber" -> DocBadNumber
    [] OTHER -> Missing

NoCall ==
  [op |-> "none", arg |-> "", o |-> NoOverride, ret |-> "", idx |-> 0,
   was_loaded |-> FALSE, was_overridden |-> FALSE, was_synthesized |-> FALSE]

\* The record of a call: was_loaded, was_overridden and was_synthesized
\* describe the state the call started in (loaded; left by an override that
\* changed a credential; left by an override that added an entry).
Call(name, arg, o, ret, idx) ==
  [op |-> name, arg |-> arg, o |-> o, ret |-> ret, idx |-> idx,
   was_loaded |-> config_loaded_,
   was_overridden |-> last.op = "applyGucOverrides" /\ config_ # base_config_,
   was_synthesized |-> /\ last.op = "applyGucOverrides"
                       /\ Len(config_.providers) > Len(base_config_.providers)]

SetState(st) ==
  /\ config_' = st.config_
  /\ config_loaded_' = st.config_loaded_
  /\ base_config_' = st.base_config_

\* The callers that may be inside an accessor at the same time.
Threads == {"t1", "t2"}

NoResult == [ret |-> "none", cfg |-> Configuration, idx |-> 0, during_parse |-> FALSE]

\* No caller is inside an accessor.
InitConc ==
  /\ pc = [t \in Threads |-> "idle"]
  /\ op = [t \in Threads |-> [name |-> "none", p |-> "UNKNOWN"]]
  /\ ln = [t \in Threads |-> 0]
  /\ section = [t \in Threads |-> ""]
  /\ parses = 0
  /\ result = [t \in Threads |-> NoResult]

NoRequest == [natural_language |-> <<>>, api_key |-> "", provider |-> "auto"]

NoSelection ==
  [success |-> FALSE, provider |-> "UNKNOWN", api_key |-> "", config |-> 0, error |-> ""]

NoOutcome == [success |-> FALSE, generated_query |-> "", error |-> ""]

\* No generate_query invocation has been made and no GUC is set.
InitGen ==
  /\ guc = NoOverride
  /\ stage = "idle"
  /\ trace = <<>>
  /\ req = NoRequest
  /\ sel = NoSelection
  /\ outcome = NoOutcome
  /\ failed_at = ""

NoLimitResult ==
  [done |-> FALSE, generated_query |-> <<>>, row_limit_applied |-> FALSE,
   enforce_limit |-> FALSE, default_limit |-> 0]

\* No SQL text has been looked at.
InitSql ==
  /\ sql = <<>>
  /\ nchunks = 0
  /\ verdict = "none"
  /\ once = NoLimitResult
  /\ twice = NoLimitResult

\* No text has been translated, parsed, formatted or wrapped.
InitTexts ==
  /\ translation = [called |-> "none"]
  /\ parsing = [called |-> FALSE, response_text |-> <<>>]
  /\ formatting = [called |-> FALSE]
  /\ wrapping = [called |-> "none", text |-> <<>>, pieces |-> 0]

\* What a call made by the one backend thread leaves alone.
Sequential == UNCHANGED <<file, home_ok, concVars, genVars, sqlVars, textVars, unitVars>>

InitCfg ==
  /\ file \in Docs \cup {Missing}
  /\ home_ok \in BOOLEAN
  /\ config_ = InitialState.config_
  /\ config_loaded_ = InitialState.config_loaded_
  /\ base_config_ = InitialState.base_config_
  /\ last = NoCall
  /\ reads = 0
  /\ calls = 0

\* The accessor call is one of the calls counted from the unloaded state.
Counted(r) ==
  /\ calls < MaxCalls
  /\ reads' = reads + r.nread
  /\ calls' = calls + 1

Uncounted == UNCHANGED <<reads, calls>>

LoadConfigCall(name, path, r) ==
  /\ SetState(r.st)
  /\ last' = Call(name, path, NoOverride, r.ret, 0)
  /\ Sequential

\* ConfigManager::loadConfig(path)
LoadConfigPath(path) ==
  LoadConfigCall("loadConfig", path, loadConfigPath(St, ContentAt(path))) /\ Uncounted

\* ConfigManager::loadConfig()
LoadConfigHome == LoadConfigCall("loadConfigHome", "", loadConfig(St, Env)) /\ Uncounted

GetConfigCall(r) ==
  /\ SetState(r.st)
  /\ last' = Call("getConfig", "", NoOverride, r.ret, 0)
  /\ Sequential

GetProviderConfigCall(p, r) ==
  /\ SetState(r.st)
  /\ last' = Call("getProviderConfig", p, NoOverride,
                  IF r.threw THEN "throw" ELSE "pointer", r.ret)
  /\ Sequential

ApplyGucOverridesCall(o, r) ==
  /\ SetState(r.st)
  /\ last' = Call("applyGucOverrides", "", o, r.ret, 0)
  /\ Sequential

GetConfig == GetConfigCall(getConfig(St, Env)) /\ Uncounted

GetProviderConfig(p) == GetProviderConfigCall(p, getProviderConfig(St, Env, p)) /\ Uncounted

ApplyGucOverrides(o) == ApplyGucOverridesCall(o, applyGucOverrides(St, Env, o)) /\ Uncounted

Reset ==
  /\ SetState(reset(St))
  /\ last' = Call("reset", "", NoOverride, "void", 0)
  /\ Sequential
  /\ Uncounted

\* The SPIConnection objects of the model and the SPI_connect calls they may make.
MaxObjects == 2

MaxConnects == 2

SpiObjects == 1..MaxObjects

\* An object that is not constructed.  conn is the SPI_connect call whose
\* connection the object holds (0 for none) and moved says that the object
\* has been moved from; neither is a member of the class.
NoObject ==
  [alive |-> FALSE, connected_ |-> FALSE, error_message_ |-> "", conn |-> 0,
   moved |-> FALSE, by_move |-> FALSE]

\* No document has been read, no client created, no SPIConnection constructed.
InitUnits ==
  /\ inifile = [called |-> FALSE, lines |-> <<>>]
  /\ creation = [called |-> "none"]
  /\ spi = [objects |-> [o \in SpiObjects |-> NoObject], connects |-> 0, failures |-> 0,
            finished |-> <<>>, last |-> [op |-> "none", was_moved |-> FALSE, by_move |-> FALSE,
                      finishes |-> 0]]

Init == InitCfg /\ InitConc /\ InitGen /\ InitSql /\ InitTexts /\ InitUnits

Next ==
  \/ \E path \in Paths : LoadConfigPath(path)
  \/ LoadConfigHome
  \/ GetConfig
  \/ \E p \in KnownProviders : GetProviderConfig(p)
  \/ \E o \in Overrides : ApplyGucOverrides(o)
  \/ Reset

Spec == Init /\ [][Next]_vars

(***************************************************************************)
(* First use: the accessors alone, from the unloaded state, with the       *)
(* read_file calls counted.                                                *)
(***************************************************************************)

CountedGetConfig(r) == GetConfigCall(r) /\ Counted(r)

CountedGetProviderConfig(p, r) == GetProviderConfigCall(p, r) /\ Counted(r)

CountedApplyGucOverrides(o, r) == ApplyGucOverridesCall(o, r) /\ Counted(r)

FirstGetConfig == CountedGetConfig(getConfig(St, Env))

FirstGetProviderConfig(p) == CountedGetProviderConfig(p, getProviderConfig(St, Env, p))

FirstApplyGucOverrides(o) == CountedApplyGucOverrides(o, applyGucOverrides(St, Env, o))

NextLazy ==
  \/ FirstGetConfig
  \/ \E p \in KnownProviders : FirstGetProviderConfig(p)
  \/ \E o \in Overrides : FirstApplyGucOverrides(o)

SpecLazy == Init /\ [][NextLazy]_vars

(***************************************************************************)
(* Concurrent first use.  getConfig and getProviderConfig take no lock     *)
(* (config.cpp 105-123): a caller is followed through the reads and writes *)
(* it makes of config_loaded_ and config_, one step per access, parseConfig*)
(* one step per line.  Unsynchronised accesses are a data race; the steps  *)
(* here are the interleavings in which every single access is still whole, *)
(* the mildest outcomes a build can produce.                               *)
(***************************************************************************)

Enter(t, name, p) ==
  /\ pc[t] = "idle"
  /\ pc' = [pc EXCEPT ![t] = "check"]
  /\ op' = [op EXCEPT ![t] = [name |-> name, p |-> p]]
  /\ UNCHANGED <<cfgVars, genVars, sqlVars, textVars, unitVars, ln, section, parses, result>>

\* A caller enters getConfig().
CallGetConfig(t) == Enter(t, "getConfig", "UNKNOWN")

\* A caller enters getProviderConfig(p).
CallGetProviderConfig(t, p) == Enter(t, "getProviderConfig", p)

\* if (!config_loaded_)
CheckLoaded(t) ==
  /\ pc[t] = "check"
  /\ pc' = [pc EXCEPT ![t] = IF config_loaded_ THEN "return" ELSE "load"]
  /\ UNCHANGED <<cfgVars, genVars, sqlVars, textVars, unitVars, op, ln, section, parses, result>>

\* loadConfig() up to parseConfig: the home directory, then read_file.  With
\* no home directory it returns false; with no file loadConfig(path) throws.
ReadFile(t) ==
  /\ pc[t] = "load"
  /\ pc' = [pc EXCEPT ![t] = CASE ~home_ok -> "return"
                                [] file = Missing -> "done"
                                [] OTHER -> "parse"]
  /\ result' = [result EXCEPT ![t] =
                  IF home_ok /\ file = Missing THEN [NoResult EXCEPT !.ret = "throw"] ELSE @]
  /\ UNCHANGED <<cfgVars, genVars, sqlVars, textVars, unitVars, op, ln, section, parses>>

\* parseConfig: config_ = Configuration();
ParseReset(t) ==
  /\ pc[t] = "parse"
  /\ config_' = Configuration
  /\ ln' = [ln EXCEPT ![t] = 0]
  /\ section' = [section EXCEPT ![t] = ""]
  /\ parses' = parses + 1
  /\ pc' = [pc EXCEPT ![t] = "line"]
  /\ UNCHANGED <<file, home_ok, config_loaded_, base_config_, last, reads, calls, op, result,
                 genVars, sqlVars, textVars, unitVars>>

\* The caller's parseConfig after one more turn of its loop left ps.
AfterLine(t, ps) ==
  /\ config_' = ps.cfg
  /\ section' = [section EXCEPT ![t] = ps.section]
  /\ ln' = [ln EXCEPT ![t] = @ + 1]
  /\ pc' = [pc EXCEPT ![t] = CASE ps.ret = "running" -> "line"
                                [] ps.ret = "false" -> "return"
                                [] OTHER -> "done"]
  /\ result' = [result EXCEPT ![t] =
                  IF ps.ret = "throw" THEN [NoResult EXCEPT !.ret = "throw"] ELSE @]
  /\ UNCHANGED <<file, home_ok, config_loaded_, base_config_, last, reads, calls, op, parses,
                 genVars, sqlVars, textVars, unitVars>>

\* parseConfig: one turn of the loop, on the shared config_.
ParseNextLine(t) ==
  /\ pc[t] = "line"
  /\ ln[t] < Len(file)
  /\ AfterLine(t, parseLine([ret |-> "running", section |-> section[t], cfg |-> config_],
                            file[ln[t] + 1]))

\* parseConfig: the end of the loop; default_provider, return true.
ParseFinish(t) ==
  /\ pc[t] = "line"
  /\ ln[t] = Len(file)
  /\ config_' = parseEnd([ret |-> "running", section |-> section[t], cfg |-> config_]).cfg
  /\ pc' = [pc EXCEPT ![t] = "loaded"]
  /\ UNCHANGED <<file, home_ok, config_loaded_, base_config_, last, reads, calls,
                 op, ln, section, parses, result, genVars, sqlVars, textVars, unitVars>>

\* loadConfig(path): config_loaded_ = true; the parsed file is the base.
SetLoaded(t) ==
  /\ pc[t] = "loaded"
  /\ SetState(cacheBase([St EXCEPT !.config_loaded_ = TRUE]))
  /\ pc' = [pc EXCEPT ![t] = "return"]
  /\ UNCHANGED <<file, home_ok, last, reads, calls, op, ln, section, parses, result,
                 genVars, sqlVars, textVars, unitVars>>

\* Another caller is between the first and the last write of its parseConfig.
ParseInProgress(t) == \E u \in Threads \ {t} : pc[u] = "line"

\* return config_;  or the loop over config_.providers and its return.
Return(t) ==
  /\ pc[t] = "return"
  /\ result' = [result EXCEPT ![t] =
                  [ret |-> IF op[t].name = "getConfig" THEN "config" ELSE "pointer",
                   cfg |-> config_,
                   idx |-> IF op[t].name = "getConfig" THEN 0
                           ELSE FindProvider(config_.providers, op[t].p),
                   during_parse |-> ParseInProgress(t)]]
  /\ pc' = [pc EXCEPT ![t] = "done"]
  /\ UNCHANGED <<cfgVars, genVars, sqlVars, textVars, unitVars, op, ln, section, parses>>

NextConc ==
  \/ \E t \in Threads : CallGetConfig(t)
  \/ \E t \in Threads : \E p \in KnownProviders : CallGetProviderConfig(t, p)
  \/ \E t \in Threads : CheckLoaded(t)
  \/ \E t \in Threads : ReadFile(t)
  \/ \E t \in Threads : ParseReset(t)
  \/ \E t \in Threads : ParseNextLine(t)
  \/ \E t \in Threads : ParseFinish(t)
  \/ \E t \in Threads : SetLoaded(t)
  \/ \E t \in Threads : Return(t)

SpecConc == Init /\ [][NextConc]_vars

(***************************************************************************)
(* generate_query: the SQL function (pg_ai_query.cpp), the query           *)
(* generation flow it calls (docs/src/architecture.md, spec.md 2) and the  *)
(* provider selection (spec.md 4.2).                                       *)
(***************************************************************************)

isspace(c) == c \in {" ", "\t", "\n"}

\* std::optional<std::string> validate_natural_language_query(query,
\* max_query_length): NULL for std::nullopt, the message otherwise.
validate_natural_language_query(query, max_query_length) ==
  IF Len(query) = 0 \/ \A i \in 1..Len(query) : isspace(query[i])
  THEN "Query cannot be empty."
  ELSE IF max_query_length < 0 THEN "Invalid maximum query length."
  ELSE IF Len(query) > max_query_length THEN "Query too long."
  ELSE NULL

\* The names a provider preference selects explicitly.
PreferenceProvider(preference) ==
  CASE preference = "openai" -> "OPENAI"
    [] preference = "anthropic" -> "ANTHROPIC"
    [] preference = "gemini" -> "GEMINI"
    [] OTHER -> "UNKNOWN"

\* The credential the entry g.ret of the configuration holds, "" for nullptr.
configKey(g) == IF g.ret = 0 THEN "" ELSE g.st.config_.providers[g.ret].api_key

\* A selection that raised: nothing is selected.
selectionThrown(g) == [st |-> g.st, threw |-> TRUE, sel |-> NoSelection]

\* The selection of provider p with credential key, g being what
\* getProviderConfig(p) returned; it fails when there is no credential.
selected(g, p, key) ==
  [st |-> g.st, threw |-> FALSE,
   sel |-> [success |-> key # "", provider |-> p, api_key |-> key, config |-> g.ret,
            error |-> IF key # "" THEN "" ELSE "No API key available"]]

\* Step 1 of the selection: the provider the preference names, with the
\* caller's credential if it is not empty, else the configured one.
selectExplicit(g, p, api_key) ==
  IF g.threw THEN selectionThrown(g)
  ELSE selected(g, p, IF api_key # "" THEN api_key ELSE configKey(g))

\* Auto-selection with a caller credential: the primary provider.
selectPrimary(g, api_key) ==
  IF g.threw THEN selectionThrown(g) ELSE selected(g, "OPENAI", api_key)

\* Auto-selection without a caller credential: the scan, last position.
scanGemini(g) ==
  IF g.threw THEN selectionThrown(g)
  ELSE IF configKey(g) # "" THEN selected(g, "GEMINI", configKey(g))
  ELSE [st |-> g.st, threw |-> FALSE,
        sel |-> [NoSelection EXCEPT !.error = "No API key available"]]

\* The scan, second position.
scanAnthropic(g, env) ==
  IF g.threw THEN selectionThrown(g)
  ELSE IF configKey(g) # "" THEN selected(g, "ANTHROPIC", configKey(g))
  ELSE scanGemini(getProviderConfig(g.st, env, "GEMINI"))

\* The scan, first position.
scanOpenAI(g, env) ==
  IF g.threw THEN selectionThrown(g)
  ELSE IF configKey(g) # "" THEN selected(g, "OPENAI", configKey(g))
  ELSE scanAnthropic(getProviderConfig(g.st, env, "ANTHROPIC"), env)

\* Step 2 of the selection.
autoSelectProvider(st, env, api_key) ==
  IF api_key # "" THEN selectPrimary(getProviderConfig(st, env, "OPENAI"), api_key)
  ELSE scanOpenAI(getProviderConfig(st, env, "OPENAI"), env)

\* selectProvider failing for a preference that is neither a provider nor "auto".
selectProvider_RejectsUnrecognized(st, env, api_key, preference) ==
  IF PreferenceProvider(preference) # "UNKNOWN"
  THEN selectExplicit(getProviderConfig(st, env, PreferenceProvider(preference)),
                      PreferenceProvider(preference), api_key)
  ELSE IF preference = "auto" THEN autoSelectProvider(st, env, api_key)
  ELSE [st |-> st, threw |-> FALSE, sel |-> [NoSelection EXCEPT !.error = "Unknown provider"]]

\* ProviderSelector::selectProvider(api_key, provider_preference)
selectProvider(st, env, api_key, preference) ==
  IF PreferenceProvider(preference) # "UNKNOWN"
  THEN selectExplicit(getProviderConfig(st, env, PreferenceProvider(preference)),
                      PreferenceProvider(preference), api_key)
  ELSE autoSelectProvider(st, env, api_key)

\* generate_query after generateQuery returned: ereport(ERROR) for a result
\* that is not a success, the formatting otherwise.
afterGenerate_AlwaysFormats(res) == "format"

afterGenerate(res) == IF ~res.success THEN "failed" ELSE "format"

\* The natural-language texts, the api_key and the provider arguments of
\* the SQL function; NULL is an SQL NULL.
NlQueries ==
  {<<>>, <<" ", "\t">>, <<"t", "o", "p">>, <<"t", "o", "p", " ", "t", "e", "n">>}

ApiKeyArgs == {NULL, "", "sk-sql"}

ProviderArgs == {NULL, "auto", "openai", "anthropic", "gemini", "mistral"}

\* The values SET gives the three GUCs in the model.
GucSettings == {o \in Overrides : o[1] # "" /\ o[3] # ""}

\* The stages of one invocation, in the order generate_query runs them.
StageOrder == <<"overrides", "validate", "select", "prompt", "ai", "parse", "format">>

Ran(name) == trace' = Append(trace, name)

\* SET pg_ai.<provider>_api_key / RESET, between two invocations.
SetGuc(o) ==
  /\ stage = "idle"
  /\ guc # o
  /\ guc' = o
  /\ UNCHANGED <<cfgVars, concVars, sqlVars, textVars, unitVars, stage, trace, req, sel, outcome, failed_at>>

\* generate_query is called: the arguments become the QueryRequest.
Begin(nl, api_key_arg, provider_arg) ==
  /\ stage = "idle"
  /\ req' = [natural_language |-> nl,
             api_key |-> IF api_key_arg = NULL THEN "" ELSE api_key_arg,
             provider |-> IF provider_arg = NULL THEN "auto" ELSE provider_arg]
  /\ stage' = "overrides"
  /\ trace' = <<>>
  /\ sel' = NoSelection
  /\ outcome' = NoOutcome
  /\ failed_at' = ""
  /\ UNCHANGED <<cfgVars, concVars, sqlVars, textVars, unitVars, guc>>

\* The stage `name` has run and left the configuration state r.st: the
\* invocation goes on to `next`, or ends in the catch block when r threw.
StageDone(name, st, threw, next) ==
  /\ SetState(st)
  /\ Ran(name)
  /\ stage' = IF threw THEN "failed" ELSE next
  /\ failed_at' = IF threw THEN name ELSE failed_at
  /\ UNCHANGED <<file, home_ok, last, reads, calls, concVars, sqlVars, textVars, unitVars, guc, req>>

AppliedOverrides(r) ==
  /\ StageDone("overrides", r.st, r.ret = "throw", "validate")
  /\ UNCHANGED <<sel, outcome>>

\* ConfigManager::applyGucOverrides(guc_openai_api_key, ...)
ApplyOverridesStage ==
  /\ stage = "overrides"
  /\ AppliedOverrides(applyGucOverrides(St, Env, guc))

\* generateQuery fails at stage `name` with a structured failure.
Failure(name, msg) ==
  /\ outcome' = [success |-> FALSE, generated_query |-> "", error |-> msg]
  /\ failed_at' = name
  /\ stage' = "check"

Validated(g, msg) ==
  /\ SetState(g.st)
  /\ Ran("validate")
  /\ IF g.ret = "throw" THEN stage' = "failed" /\ failed_at' = "validate" /\ outcome' = outcome
     ELSE IF msg # NULL THEN Failure("validate", msg)
     ELSE stage' = "select" /\ UNCHANGED <<failed_at, outcome>>
  /\ UNCHANGED <<file, home_ok, last, reads, calls, concVars, sqlVars, textVars, unitVars, guc, req, sel>>

ValidatedWith(g) ==
  Validated(g, validate_natural_language_query(req.natural_language,
                                               g.st.config_.max_query_length))

\* generateQuery (1): validate the input against max_query_length.
ValidateStage ==
  /\ stage = "validate"
  /\ ValidatedWith(getConfig(St, Env))

Selected(s) ==
  /\ SetState(s.st)
  /\ Ran("select")
  /\ sel' = s.sel
  /\ IF s.threw THEN stage' = "failed" /\ failed_at' = "select" /\ outcome' = outcome
     ELSE IF ~s.sel.success THEN Failure("select", s.sel.error)
     ELSE stage' = "prompt" /\ UNCHANGED <<failed_at, outcome>>
  /\ UNCHANGED <<file, home_ok, last, reads, calls, concVars, sqlVars, textVars, unitVars, guc, req>>

\* generateQuery (2): ProviderSelector::selectProvider
SelectStage ==
  /\ stage = "select"
  /\ Selected(selectProvider(St, Env, req.api_key, req.provider))

\* generateQuery (3): buildPrompt; the schema is fetched or the fetch fails.
PromptStage(ok) ==
  /\ stage = "prompt"
  /\ Ran("prompt")
  /\ IF ok THEN stage' = "ai" /\ UNCHANGED <<failed_at, outcome>>
     ELSE Failure("prompt", "schema")
  /\ UNCHANGED <<cfgVars, concVars, sqlVars, textVars, unitVars, guc, req, sel>>

\* generateQuery (4): the one call of the provider's generate_text.
AiStage(ok) ==
  /\ stage = "ai"
  /\ Ran("ai")
  /\ IF ok THEN stage' = "parse" /\ UNCHANGED <<failed_at, outcome>>
     ELSE Failure("ai", "api")
  /\ UNCHANGED <<cfgVars, concVars, sqlVars, textVars, unitVars, guc, req, sel>>

\* generateQuery (5): QueryParser::parseQueryResponse; the answer holds a
\* query, holds none, or is not the JSON asked for.
ParseStage(answer) ==
  /\ stage = "parse"
  /\ Ran("parse")
  /\ IF answer = "bad" THEN Failure("parse", "JSON parse error")
     ELSE /\ outcome' = [success |-> TRUE, error |-> "",
                         generated_query |-> IF answer = "query" THEN "SELECT 1" ELSE ""]
          /\ stage' = "check"
          /\ failed_at' = failed_at
  /\ UNCHANGED <<cfgVars, concVars, sqlVars, textVars, unitVars, guc, req, sel>>

\* if (!result.success) ereport(ERROR, ...)
CheckResult ==
  /\ stage = "check"
  /\ stage' = afterGenerate(outcome)
  /\ UNCHANGED <<cfgVars, concVars, sqlVars, textVars, unitVars, guc, trace, req, sel, outcome, failed_at>>

Formatted(g) ==
  /\ StageDone("format", g.st, g.ret = "throw", "returned")
  /\ UNCHANGED <<sel, outcome>>

\* getConfig(); ResponseFormatter::formatResponse(result, config); return
FormatStage ==
  /\ stage = "format"
  /\ Formatted(getConfig(St, Env))

\* The invocation is over (the text was returned, or the error reported):
\* nothing of it is kept but the configuration state.
End ==
  /\ stage \in {"returned", "failed"}
  /\ stage' = "idle"
  /\ trace' = <<>>
  /\ req' = NoRequest
  /\ sel' = NoSelection
  /\ outcome' = NoOutcome
  /\ failed_at' = ""
  /\ UNCHANGED <<cfgVars, concVars, sqlVars, textVars, unitVars, guc>>

NextGen ==
  \/ \E o \in GucSettings : SetGuc(o)
  \/ \E nl \in NlQueries : \E k \in ApiKeyArgs : \E pr \in ProviderArgs : Begin(nl, k, pr)
  \/ ApplyOverridesStage
  \/ ValidateStage
  \/ SelectStage
  \/ \E ok \in BOOLEAN : PromptStage(ok)
  \/ \E ok \in BOOLEAN : AiStage(ok)
  \/ \E answer \in {"query", "empty", "bad"} : ParseStage(answer)
  \/ CheckResult
  \/ FormatStage
  \/ End

SpecGen == Init /\ [][NextGen]_vars

(***************************************************************************)
(* The SQL text of an answer: is_select_only_query (utils) and the         *)
(* row-limit step of the response parser (spec.md 4.4, step 5).  A text is *)
(* the sequence of its characters; position i is the code's s[i], the      *)
(* first character being s[0].                                             *)
(***************************************************************************)

LowerCase == {"s", "e", "l", "c", "t", "i", "n", "r", "u", "p", "d", "a", "o", "x", "m"}

UpperCase == {"S", "E", "L", "C", "T", "I", "M"}

Digit == <<"0", "1", "2", "3", "4", "5", "6", "7", "8", "9">>

\* std::isalnum(c) || c == '_'
isword(c) ==
  c \in LowerCase \/ c \in UpperCase \/ c = "_" \/ \E d \in 1..Len(Digit) : Digit[d] = c

\* std::tolower
tolower(c) ==
  CASE c = "S" -> "s" [] c = "E" -> "e" [] c = "L" -> "l" [] c = "C" -> "c"
    [] c = "T" -> "t" [] c = "I" -> "i" [] c = "M" -> "m" [] OTHER -> c

\* s[i]
At(s, i) == s[i + 1]

\* s[i] == a && s[i + 1] == b, with the i + 1 < n that guards it
pairAt(s, i, a, b) == i + 1 < Len(s) /\ At(s, i) = a /\ At(s, i + 1) = b

\* The lambda skip_whitespace: where it leaves i.
skip_whitespace(s, i) ==
  CHOOSE j \in i..Len(s) :
    /\ \A k \in i..(j - 1) : isspace(At(s, k))
    /\ j = Len(s) \/ ~isspace(At(s, j))

\* The lambda skip_single_line_comment: i is left at the newline, or at n.
skip_single_line_comment(s, i) ==
  IF pairAt(s, i, "-", "-")
  THEN CHOOSE j \in (i + 2)..Len(s) :
         /\ \A k \in (i + 2)..(j - 1) : At(s, k) # "\n"
         /\ j = Len(s) \/ At(s, j) = "\n"
  ELSE i

\* The loop of skip_block_comment stops at j.
blockStop(s, j) == ~(j + 1 < Len(s)) \/ pairAt(s, j, "*", "/")

\* After the loop of skip_block_comment: the closing pair is stepped over
\* when the loop stopped before the last character.
afterBlock(s, j) == IF j + 1 < Len(s) THEN j + 2 ELSE j

\* The lambda skip_block_comment.
skip_block_comment(s, i) ==
  IF pairAt(s, i, "/", "*")
  THEN afterBlock(s, CHOOSE j \in (i + 2)..Len(s) :
                       blockStop(s, j) /\ \A k \in (i + 2)..(j - 1) : ~blockStop(s, k))
  ELSE i

RECURSIVE skipComments(_, _)
\* The while (i < n) loop: comments and the whitespace after each.
skipComments(s, i) ==
  IF i < Len(s) /\ pairAt(s, i, "-", "-")
  THEN skipComments(s, skip_whitespace(s, skip_single_line_comment(s, i)))
  ELSE IF i < Len(s) /\ pairAt(s, i, "/", "*")
  THEN skipComments(s, skip_whitespace(s, skip_block_comment(s, i)))
  ELSE i

\* The end of the first token that starts at `start`.
tokenEnd(s, start) ==
  CHOOSE j \in start..Len(s) :
    /\ \A k \in start..(j - 1) : isword(At(s, k))
    /\ j = Len(s) \/ ~isword(At(s, j))

\* first_token, case-folded.
foldedToken(s, start, end) == [k \in 1..(end - start) |-> tolower(s[start + k])]

\* The end of is_select_only_query, i being where the skipping stopped.
firstTokenIsSelect(s, i) ==
  IF i >= Len(s) THEN FALSE
  ELSE foldedToken(s, i, tokenEnd(s, i)) = <<"s", "e", "l", "e", "c", "t">>

\* is_select_only_query without the case folding.
is_select_only_query_CaseSensitive(str) ==
  LET i == skipComments(str, skip_whitespace(str, 0))
  IN i < Len(str) /\ SubSeq(str, i + 1, tokenEnd(str, i)) = <<"s", "e", "l", "e", "c", "t">>

\* is_select_only_query looking at the text from its first character.
is_select_only_query_NoSkipping(str) == firstTokenIsSelect(str, 0)

\* bool is_select_only_query(const std::string& sql)
is_select_only_query(str) == firstTokenIsSelect(str, skipComments(str, skip_whitespace(str, 0)))

\* The text contains a limit clause: the word limit, in any case.
hasLimit(s) ==
  \E k \in 0..(Len(s) - 5) :
    /\ [j \in 1..5 |-> tolower(s[k + j])] = <<"l", "i", "m", "i", "t">>
    /\ k = 0 \/ ~isword(s[k])
    /\ k + 5 = Len(s) \/ ~isword(s[k + 6])

RECURSIVE to_string(_)
\* std::to_string of a number that is not negative.
to_string(n) == IF n < 10 THEN <<Digit[n + 1]>> ELSE to_string(n \div 10) \o <<Digit[(n % 10) + 1]>>

\* The clause the row-limit step appends.
LimitClause(n) == <<" ", "L", "I", "M", "I", "T", " ">> \o to_string(n)

\* The row-limit step: a read-only SELECT without a limit clause gets one
\* when enforce_limit is on; every other text is left as it is.
enforceLimit(q, was_applied, enforce_limit, default_limit) ==
  IF enforce_limit /\ is_select_only_query(q) /\ ~hasLimit(q)
  THEN [done |-> TRUE, generated_query |-> q \o LimitClause(default_limit),
        row_limit_applied |-> TRUE,
        enforce_limit |-> enforce_limit, default_limit |-> default_limit]
  ELSE [done |-> TRUE, generated_query |-> q, row_limit_applied |-> was_applied,
        enforce_limit |-> enforce_limit, default_limit |-> default_limit]

\* The pieces the texts of the model are put together from.
Chunks ==
  {<<" ">>, <<"\n">>, <<"-", "-">>, <<"/", "*">>, <<"*", "/">>, <<"x">>,
   <<"s", "e", "l", "e", "c", "t">>, <<"S", "e", "L", "e", "C", "t">>,
   <<"i", "n", "s", "e", "r", "t">>, <<"u", "p", "d", "a", "t", "e">>,
   <<"d", "e", "l", "e", "t", "e">>, <<"d", "r", "o", "p">>,
   <<"L", "i", "m", "i", "t">>}

\* How many pieces a text has at most.
MaxChunks == 3

\* The (enforce_limit, default_limit) settings of the model: the defaults,
\* the [query] section of DocAllThree with the limit on, and the limit off.
LimitSettings ==
  {<<Configuration.enforce_limit, Configuration.default_limit>>,
   <<TRUE, parseConfig(DocAllThree).cfg.default_limit>>,
   <<parseConfig(DocAllThree).cfg.enforce_limit, Configuration.default_limit>>}

\* The answer's text grows by one piece.
AppendChunk(c) ==
  /\ verdict = "none"
  /\ nchunks < MaxChunks
  /\ sql' = sql \o c
  /\ nchunks' = nchunks + 1
  /\ UNCHANGED <<cfgVars, concVars, genVars, textVars, unitVars, verdict, once, twice>>

\* is_select_only_query(sql)
Classify ==
  /\ verdict = "none"
  /\ verdict' = IF is_select_only_query(sql) THEN "select" ELSE "other"
  /\ UNCHANGED <<cfgVars, concVars, genVars, textVars, unitVars, sql, nchunks, once, twice>>

\* The row-limit step on the text.
EnforceLimit(setting) ==
  /\ verdict # "none"
  /\ ~once.done
  /\ once' = enforceLimit(sql, FALSE, setting[1], setting[2])
  /\ UNCHANGED <<cfgVars, concVars, genVars, textVars, unitVars, sql, nchunks, verdict, twice>>

\* The row-limit step on its own result.
EnforceLimitAgain ==
  /\ once.done
  /\ ~twice.done
  /\ twice' = enforceLimit(once.generated_query, once.row_limit_applied,
                           once.enforce_limit, once.default_limit)
  /\ UNCHANGED <<cfgVars, concVars, genVars, textVars, unitVars, sql, nchunks, verdict, once>>

NextSql ==
  \/ \E c \in Chunks : AppendChunk(c)
  \/ Classify
  \/ \E setting \in LimitSettings : EnforceLimit(setting)
  \/ EnforceLimitAgain

\* The texts do not depend on the configuration file: one file stands for all.
InitText == Init /\ file = DocMinimal /\ home_ok

SpecSql == InitText /\ [][NextSql]_vars

(***************************************************************************)
(* formatAPIError (utils): a provider's error payload to one sentence.     *)
(* There are two of them: the one given the provider and the HTTP status   *)
(* (config.cpp 486-592) and the one given the raw text only (utils.cpp     *)
(* 70-166).  A raw error is the text before its first '{' and the body     *)
(* that starts there; the body is what nlohmann::json::parse makes of it:  *)
(* nothing (an exception), or a document whose "error" member is absent,   *)
(* not an object, or an object with its "type" and "message" members.      *)
(***************************************************************************)

\* s.find(kw) != std::string::npos
find(s, kw) == \E i \in 1..(Len(s) - Len(kw) + 1) : SubSeq(s, i, i + Len(kw) - 1) = kw

\* s.find(kw), the position of the first occurrence (the first character is 0)
findPos(s, kw) ==
  CHOOSE p \in 0..Len(s) :
    /\ SubSeq(s, p + 1, p + Len(kw)) = kw
    /\ \A q \in 0..(p - 1) : SubSeq(s, q + 1, q + Len(kw)) # kw

\* std::transform(..., std::tolower)
lower(s) == [i \in 1..Len(s) |-> tolower(s[i])]

\* erase(0, find_first_not_of(" \t")); erase(find_last_not_of(" \t") + 1)
trim(s) ==
  IF \A i \in 1..Len(s) : s[i] \in {" ", "\t"} THEN <<>>
  ELSE SubSeq(s, CHOOSE i \in 1..Len(s) : s[i] \notin {" ", "\t"}
                                          /\ \A j \in 1..(i - 1) : s[j] \in {" ", "\t"},
                 CHOOSE i \in 1..Len(s) : s[i] \notin {" ", "\t"}
                                          /\ \A j \in (i + 1)..Len(s) : s[j] \in {" ", "\t"})

\* A member of the error object: absent, a string, or a value that is no string.
Member(kind, str) == [kind |-> kind, str |-> str]

\* The body of a raw error.
Body(kind, error, type, message) ==
  [kind |-> kind, error |-> error, type |-> type, message |-> message]

NoBody == Body("none", "absent", Member("absent", ""), Member("absent", <<>>))

RawError(head, body) == [head |-> head, body |-> body]

\* The characters of the raw text that the searches of it can match: those
\* before the body and those of the message inside it.
rawText(raw_error) == raw_error.head \o raw_error.body.message.str

\* What a call gives back: one of the fixed sentences with what is put into
\* it, the raw error itself, or an exception that leaves the function.
Message(text, provider, status_code, detail, raw) ==
  [text |-> text, provider |-> provider, status_code |-> status_code,
   detail |-> detail, raw |-> raw]

Sentence(text) == Message(text, "", 0, <<>>, RawError(<<>>, NoBody))

ReturnRaw(raw_error) == Message("<raw_error>", "", 0, <<>>, raw_error)

\* nlohmann::json::parse(error_to_parse) returns
parsed(raw_error) == raw_error.body.kind = "json"

\* error_json.contains("error")
containsError(raw_error) == raw_error.body.error # "absent"

\* the conversion of a member that is no string to std::string throws
\* nlohmann::json::type_error
conversionThrows(raw_error) ==
  raw_error.body.type.kind = "other" \/ raw_error.body.message.kind = "other"

\* msg.substr(model_pos + 7), trimmed; std::out_of_range when the text ends
\* before that position
invalidModel(msg, model_pos) ==
  IF model_pos + 7 > Len(msg) THEN Sentence("<std::out_of_range>")
  ELSE Message("Invalid model '%model_name%'. Please check your configuration and use a valid model name. Common models: 'claude-sonnet-4-5-20250929' (Anthropic), 'gpt-4o' (OpenAI).",
               "", 0, trim(SubSeq(msg, model_pos + 8, Len(msg))), RawError(<<>>, NoBody))

\* if (error_type == "not_found_error") { ... }
notFound(has_message, msg) ==
  IF has_message /\ find(msg, <<"m", "o", "d", "e", "l", ":">>)
  THEN invalidModel(msg, findPos(msg, <<"m", "o", "d", "e", "l", ":">>))
  ELSE Sentence("Model not found. Please check your model configuration and ensure you're using a valid model name.")

\* The checks of the error object, in the order of the code.
classify(provider, status_code, error_type, has_message, error_message, error_lower, raw_error) ==
  IF status_code = 429 \/ error_type = "rate_limit_error" \/ find(error_lower, <<"r", "a", "t", "e">>)
  THEN Sentence("Rate limit exceeded. Please wait before making more requests.")
  ELSE IF \/ status_code = 401 \/ error_type = "authentication_error"
          \/ find(error_lower, <<"i", "n", "v", "a", "l", "i", "d", "_", "a", "p", "i", "_", "k", "e", "y">>)
          \/ find(error_lower, <<"u", "n", "a", "u", "t", "h", "o", "r", "i", "z", "e", "d">>)
  THEN Message("Invalid API key for %provider%. Please check your ~/.pg_ai.config file.",
               provider, 0, <<>>, RawError(<<>>, NoBody))
  ELSE IF \/ status_code = 402 \/ error_type = "payment_required"
          \/ find(error_lower, <<"q", "u", "o", "t", "a">>)
          \/ find(error_lower, <<"i", "n", "s", "u", "f", "f", "i", "c", "i", "e", "n", "t", "_", "q", "u", "o", "t", "a">>)
  THEN Message("API quota exceeded. Check your %provider% account usage.",
               provider, 0, <<>>, RawError(<<>>, NoBody))
  ELSE IF \/ status_code = 408 \/ error_type = "timeout_error"
          \/ find(error_lower, <<"t", "i", "m", "e", "o", "u", "t">>)
          \/ find(error_lower, <<"t", "i", "m", "e", "d", " ", "o", "u", "t">>)
  THEN Sentence("Request timed out. Try increasing request_timeout_ms in config.")
  ELSE IF status_code = 503 \/ status_code = 502 \/ status_code = 504
  THEN Message("%provider% service is temporarily unavailable. Try again later.",
               provider, 0, <<>>, RawError(<<>>, NoBody))
  ELSE IF error_type = "not_found_error"
  THEN notFound(has_message, error_message)
  ELSE IF status_code >= 400 /\ status_code < 500
  THEN IF error_message # <<>>
       THEN Message("The request was invalid (%status_code%): %error_message%",
                    "", status_code, error_message, RawError(<<>>, NoBody))
       ELSE Sentence("The request was invalid.")
  ELSE IF error_message # <<>>
  THEN Message("%error_message%", "", 0, error_message, RawError(<<>>, NoBody))
  ELSE ReturnRaw(raw_error)

\* The status is looked at whatever the body is.
formatAPIError_StatusOnly(provider, status_code, raw_error) ==
  classify(provider, status_code, "", FALSE, <<>>, <<>>, raw_error)

\* formatAPIError(provider, status_code, raw_error)
formatAPIError(provider, status_code, raw_error) ==
  IF ~parsed(raw_error) \/ ~containsError(raw_error) \/ conversionThrows(raw_error)
  THEN ReturnRaw(raw_error)
  ELSE classify(provider, status_code, raw_error.body.type.str,
                raw_error.body.message.kind = "string", raw_error.body.message.str,
                lower(raw_error.body.message.str), raw_error)

\* None of the checks of the error object returned.
FallThrough == Sentence("<fall through>")

\* if (error_type == "not_found_error") { ... } of the one-argument function
notFoundText(error_msg) ==
  IF find(error_msg, <<"m", "o", "d", "e", "l", ":">>)
  THEN invalidModel(error_msg, findPos(error_msg, <<"m", "o", "d", "e", "l", ":">>))
  ELSE Sentence("Model not found. Please check your model configuration and ensure you're using a valid model name.")

\* if (error_type == "invalid_request_error") { ... }
invalidRequest(error_msg) ==
  IF \/ find(error_msg, <<"c", "o", "n", "t", "e", "x", "t", " ", "l", "e", "n", "g", "t", "h">>)
     \/ find(error_msg, <<"m", "a", "x", "i", "m", "u", "m">>)
     \/ find(error_msg, <<"t", "o", "o", " ", "l", "o", "n", "g">>)
  THEN Sentence("Request too large: the database schema and query exceed the model's context window. Try using a model with a larger context, or reduce the number of tables in your database.")
  ELSE IF error_msg # <<>>
  THEN Message("Invalid request: %error_msg%", "", 0, error_msg, RawError(<<>>, NoBody))
  ELSE FallThrough

\* error_type == "server_error" || ... and what follows it
afterInvalidRequest(error_type, error_msg) ==
  IF error_type \in {"server_error", "overloaded_error", "service_unavailable"}
  THEN Sentence("The AI provider is temporarily unavailable. Please try again in a few moments.")
  ELSE IF error_msg # <<>>
  THEN Message("%error_msg%", "", 0, error_msg, RawError(<<>>, NoBody))
  ELSE FallThrough

\* an invalid_request_error that returned nothing goes on to the next check
orAfterInvalidRequest(m, error_type, error_msg) ==
  IF m = FallThrough THEN afterInvalidRequest(error_type, error_msg) ELSE m

\* The checks of the error object of the one-argument function.
classifyText(error_type, error_msg) ==
  IF error_type = "not_found_error"
  THEN notFoundText(error_msg)
  ELSE IF \/ error_type = "rate_limit_error"
          \/ find(error_msg, <<"r", "a", "t", "e", " ", "l", "i", "m", "i", "t">>)
          \/ find(error_msg, <<"R", "a", "t", "e", " ", "l", "i", "m", "i", "t">>)
  THEN Sentence("Rate limit exceeded. Please wait a moment and try again, or check your API plan's rate limits.")
  ELSE IF \/ error_type = "authentication_error" \/ error_type = "invalid_api_key"
          \/ find(error_msg, <<"A", "P", "I", " ", "k", "e", "y">>)
          \/ find(error_msg, <<"a", "p", "i", "_", "k", "e", "y">>)
          \/ find(error_msg, <<"I", "n", "c", "o", "r", "r", "e", "c", "t", " ", "A", "P", "I", " ", "k", "e", "y">>)
  THEN Sentence("Authentication failed. Please verify your API key in ~/.pg_ai.config is correct and has not expired.")
  ELSE IF \/ error_type = "insufficient_quota"
          \/ find(error_msg, <<"q", "u", "o", "t", "a">>)
          \/ find(error_msg, <<"b", "i", "l", "l", "i", "n", "g">>)
  THEN Sentence("API quota exceeded or billing issue. Please check your account balance and billing settings with your AI provider.")
  ELSE IF error_type = "invalid_request_error"
  THEN orAfterInvalidRequest(invalidRequest(error_msg), error_type, error_msg)
  ELSE afterInvalidRequest(error_type, error_msg)

\* The searches of the raw text that follow the try block.
networkError(raw_error, text) ==
  IF find(text, <<"C", "o", "n", "n", "e", "c", "t", "i", "o", "n", " ", "r", "e", "f", "u", "s", "e", "d">>) \/ find(text, <<"c", "o", "n", "n", "e", "c", "t">>)
  THEN Sentence("Could not connect to the AI provider. Please check your network connection and any custom api_endpoint in your configuration.")
  ELSE IF find(text, <<"t", "i", "m", "e", "d", " ", "o", "u", "t">>) \/ find(text, <<"T", "i", "m", "e", "o", "u", "t">>)
  THEN Sentence("Request timed out. Try increasing request_timeout_ms in your configuration, or simplify your query.")
  ELSE ReturnRaw(raw_error)

orNetworkError(m, raw_error) ==
  IF m = FallThrough THEN networkError(raw_error, rawText(raw_error)) ELSE m

\* formatAPIError(raw_error)
formatAPIErrorOfText(raw_error) ==
  orNetworkError(
    IF ~parsed(raw_error) \/ ~containsError(raw_error) \/ conversionThrows(raw_error)
    THEN FallThrough
    ELSE classifyText(raw_error.body.type.str, raw_error.body.message.str),
    raw_error)

\* The providers, the statuses, the "type" and "message" members, the texts
\* before the body and the bodies of the model.
ProviderNames == {"openai", "anthropic"}

StatusCodes == {200, 400, 401, 402, 408, 429, 500, 502, 503, 504}

ErrorTypes ==
  {Member("absent", ""), Member("other", "")}
  \cup {Member("string", t) :
          t \in {"rate_limit_error", "authentication_error", "payment_required",
                 "timeout_error", "overloaded_error", "not_found_error",
                 "invalid_request_error", "insufficient_quota"}}

ErrorMessages ==
  {Member("absent", <<>>), Member("other", <<>>)}
  \cup {Member("string", t) :
          t \in {<<>>, <<"x">>, <<"g", "e", "n", "e", "r", "a", "t", "e">>, <<"u", "n", "a", "u", "t", "h", "o", "r", "i", "z", "e", "d">>, <<"q", "u", "o", "t", "a">>, <<"T", "i", "m", "e", "d", " ", "o", "u", "t">>,
                 <<"m", "o", "d", "e", "l", ":", " ", "x">>, <<"n", "o", " ", "m", "o", "d", "e", "l", ":">>, <<"c", "o", "n", "n", "e", "c", "t">>, <<"t", "o", "o", " ", "l", "o", "n", "g">>, <<"A", "P", "I", " ", "k", "e", "y">>}}

Heads == {<<>>, <<"x">>, <<"T", "i", "m", "e", "o", "u", "t">>}

Bodies ==
  {NoBody,
   Body("malformed", "absent", Member("absent", ""), Member("absent", <<>>)),
   Body("json", "absent", Member("absent", ""), Member("absent", <<>>)),
   Body("json", "string", Member("absent", ""), Member("absent", <<>>))}
  \cup {Body("json", "object", t, m) : t \in ErrorTypes, m \in ErrorMessages}

\* formatAPIError(provider, status_code, raw_error)
FormatAPIError(provider, status_code, raw_error) ==
  /\ translation.called = "none"
  /\ translation' = [called |-> "status", provider |-> provider,
                     status_code |-> status_code, raw_error |-> raw_error,
                     message |-> formatAPIError(provider, status_code, raw_error)]
  /\ UNCHANGED <<cfgVars, concVars, genVars, sqlVars, unitVars, parsing, formatting, wrapping>>

\* formatAPIError(raw_error)
FormatAPIErrorOfText(raw_error) ==
  /\ translation.called = "none"
  /\ translation' = [called |-> "text", provider |-> "", status_code |-> 0,
                     raw_error |-> raw_error,
                     message |-> formatAPIErrorOfText(raw_error)]
  /\ UNCHANGED <<cfgVars, concVars, genVars, sqlVars, unitVars, parsing, formatting, wrapping>>

\* The message was reported; the next error can come.
Reported ==
  /\ translation.called # "none"
  /\ translation' = [called |-> "none"]
  /\ UNCHANGED <<cfgVars, concVars, genVars, sqlVars, unitVars, parsing, formatting, wrapping>>

NextErr ==
  \/ \E p \in ProviderNames : \E s \in StatusCodes : \E h \in Heads : \E b \in Bodies :
       FormatAPIError(p, s, RawError(h, b))
  \/ \E h \in Heads : \E b \in Bodies : FormatAPIErrorOfText(RawError(h, b))
  \/ Reported

SpecErr == InitText /\ [][NextErr]_vars

(***************************************************************************)
(* QueryParser::parseQueryResponse (spec.md 4.4, steps 1 to 3).  An answer *)
(* is the sequence of its pieces: prose, white space, the fences of a code *)
(* block, and texts that start with '{': a JSON object with a query, one   *)
(* with an empty query, one without the query field, and one cut short.    *)
(***************************************************************************)

\* The three backquotes that open or close a code block, with the json tag or not.
Fences == {"<fence>", "<fence json>"}

Objects == {"{query}", "{empty query}", "{no query}"}

Pieces == Fences \cup Objects \cup {"prose", " ", "{cut"}

\* The piece starts with '{'.
startsWithBrace(t) == t \in Objects \/ t = "{cut"

\* Step 1: the positions of the fences of the first code block, <<0, 0>> when
\* there is none.
codeBlock(text) ==
  IF \E i \in 1..Len(text) : \E j \in (i + 1)..Len(text) :
       text[i] \in Fences /\ text[j] \in Fences
  THEN LET i == CHOOSE i \in 1..Len(text) :
                  /\ text[i] \in Fences
                  /\ \A k \in 1..(i - 1) : text[k] \notin Fences
       IN <<i, CHOOSE j \in (i + 1)..Len(text) :
                 /\ text[j] \in Fences
                 /\ \A k \in (i + 1)..(j - 1) : text[k] \notin Fences>>
  ELSE <<0, 0>>

\* Step 1: the substring from the first '{' onward, nothing when there is no '{'.
fromFirstBrace(text) ==
  IF \E k \in 1..Len(text) : startsWithBrace(text[k])
  THEN SubSeq(text, CHOOSE k \in 1..Len(text) :
                      /\ startsWithBrace(text[k])
                      /\ \A q \in 1..(k - 1) : ~startsWithBrace(text[q]),
              Len(text))
  ELSE <<>>

\* Step 1: the content of the code block, else the substring from the first '{'.
locateWith(text, block) ==
  IF block # <<0, 0>> THEN SubSeq(text, block[1] + 1, block[2] - 1)
  ELSE fromFirstBrace(text)

locate(text) == locateWith(text, codeBlock(text))

\* Step 2: the JSON parser takes one value with white space around it.
parseJson(located) ==
  IF /\ Cardinality({k \in 1..Len(located) : located[k] # " "}) = 1
     /\ \E k \in 1..Len(located) : located[k] \in Objects
  THEN located[CHOOSE k \in 1..Len(located) : located[k] \in Objects]
  ELSE "exception"

\* Step 3 with an object that has no query field taken as a result.
toResult_AnyObject(document) ==
  IF document = "exception"
  THEN [success |-> FALSE, generated_query |-> "",
        error_message |-> "JSON parse error", raised |-> FALSE]
  ELSE [success |-> TRUE, error_message |-> "", raised |-> FALSE,
        generated_query |-> IF document = "{query}" THEN "SELECT 1" ELSE ""]

\* Steps 2 and 3: the QueryResult of what the JSON parser made of the text.
toResult(document) ==
  IF document = "exception"
  THEN [success |-> FALSE, generated_query |-> "",
        error_message |-> "JSON parse error", raised |-> FALSE]
  ELSE IF document = "{no query}"
  THEN [success |-> FALSE, generated_query |-> "",
        error_message |-> "Invalid response format", raised |-> FALSE]
  ELSE [success |-> TRUE, error_message |-> "", raised |-> FALSE,
        generated_query |-> IF document = "{query}" THEN "SELECT 1" ELSE ""]

\* parseQueryResponse(response_text)
parseQueryResponse(response_text) == toResult(parseJson(locate(response_text)))

\* How many pieces an answer has at most.
MaxPieces == 4

\* The answer of the model grows by one piece.
AppendPiece(t) ==
  /\ ~parsing.called
  /\ Len(parsing.response_text) < MaxPieces
  /\ parsing' = [parsing EXCEPT !.response_text = @ \o <<t>>]
  /\ UNCHANGED <<cfgVars, concVars, genVars, sqlVars, unitVars, translation, formatting, wrapping>>

\* parseQueryResponse(response_text)
ParseQueryResponse ==
  /\ ~parsing.called
  /\ parsing' = [called |-> TRUE, response_text |-> parsing.response_text,
                 located |-> locate(parsing.response_text),
                 result |-> parseQueryResponse(parsing.response_text)]
  /\ UNCHANGED <<cfgVars, concVars, genVars, sqlVars, unitVars, translation, formatting, wrapping>>

NextParse ==
  \/ \E t \in Pieces : AppendPiece(t)
  \/ ParseQueryResponse

SpecParse == InitText /\ [][NextParse]_vars

(***************************************************************************)
(* The word wrap of the comment blocks (ResponseFormatter):                *)
(* format_multiline_comment (response_formatter.cpp) and wrapText (the     *)
(* other response_formatter.cpp of the sources).  A text is the sequence   *)
(* of its characters.                                                      *)
(***************************************************************************)

\* std::size_t max_width = 70
DefaultCommentWidth == 70

\* std::size_t max_width = 78
DefaultWrapWidth == 78

\* const std::string& prefix = "--   "
CommentPrefix == <<"-", "-", " ", " ", " ">>

\* Where the word that starts the text ends: the position of the first white
\* space, the length of the text when it has none.
wordEnd(text) ==
  IF \E k \in 1..Len(text) : isspace(text[k])
  THEN (CHOOSE k \in 1..Len(text) :
          isspace(text[k]) /\ \A q \in 1..(k - 1) : ~isspace(text[q])) - 1
  ELSE Len(text)

RECURSIVE extract(_)
\* while (stream >> word): the words of the text, in their order
extract(text) ==
  IF text = <<>> THEN <<>>
  ELSE IF isspace(Head(text)) THEN extract(Tail(text))
  ELSE <<SubSeq(text, 1, wordEnd(text))>>
         \o extract(SubSeq(text, wordEnd(text) + 1, Len(text)))

\* The body of the loop with the line never broken.
commentStep_NeverBreaks(s, word, prefix, max_width) ==
  [result |-> s.result,
   current_line |-> (IF s.current_line # prefix THEN s.current_line \o <<" ">>
                     ELSE s.current_line) \o word]

\* The body of the loop of format_multiline_comment.
commentStep(s, word, prefix, max_width) ==
  IF Len(s.current_line) + Len(word) + (IF s.current_line # prefix THEN 1 ELSE 0)
       > max_width
  THEN [result |-> s.result \o s.current_line \o <<"\n">>,
        current_line |-> prefix \o word]
  ELSE [result |-> s.result,
        current_line |-> (IF s.current_line # prefix THEN s.current_line \o <<" ">>
                          ELSE s.current_line) \o word]

RECURSIVE commentLoop(_, _, _, _)
\* while (stream >> word) { ... }
commentLoop(s, ws, prefix, max_width) ==
  IF ws = <<>> THEN s
  ELSE commentLoop(commentStep(s, Head(ws), prefix, max_width), Tail(ws), prefix, max_width)

\* if (current_line != prefix) result += current_line; return result
commentEnd(s, prefix) ==
  IF s.current_line # prefix THEN s.result \o s.current_line ELSE s.result

\* format_multiline_comment(text, prefix, max_width)
format_multiline_comment(text, prefix, max_width) ==
  commentEnd(commentLoop([result |-> <<>>, current_line |-> prefix], extract(text),
                         prefix, max_width),
             prefix)

\* result += "\n" when something is in it; result += current_line
emit(s) == (IF s.result # <<>> THEN s.result \o <<"\n">> ELSE s.result) \o s.current_line

\* The body of the loop of wrapText.
wrapStep(s, word, continuation_prefix, max_width) ==
  IF Len(s.current_line)
       + (IF Len(s.current_line) = Len(s.current_prefix) THEN 0 ELSE 1)
       + Len(word) > max_width
  THEN [result |-> emit(s),
        current_line |-> continuation_prefix \o word,
        current_prefix |-> continuation_prefix]
  ELSE [result |-> s.result,
        current_line |-> (IF Len(s.current_line) > Len(s.current_prefix)
                          THEN s.current_line \o <<" ">>
                          ELSE s.current_line) \o word,
        current_prefix |-> s.current_prefix]

RECURSIVE wrapLoop(_, _, _, _)
\* while (stream >> word) { ... }
wrapLoop(s, ws, continuation_prefix, max_width) ==
  IF ws = <<>> THEN s
  ELSE wrapLoop(wrapStep(s, Head(ws), continuation_prefix, max_width), Tail(ws),
                continuation_prefix, max_width)

\* if (current_line.length() > current_prefix.length()) { ... } return result
wrapEnd(s) == IF Len(s.current_line) > Len(s.current_prefix) THEN emit(s) ELSE s.result

\* wrapText(text, first_line_prefix, continuation_prefix, max_width)
wrapText(text, first_line_prefix, continuation_prefix, max_width) ==
  wrapEnd(wrapLoop([result |-> <<>>, current_line |-> first_line_prefix,
                    current_prefix |-> first_line_prefix],
                   extract(text), continuation_prefix, max_width))

\* n times the character c
Repeat(c, n) == [i \in 1..n |-> c]

\* The pieces the texts of the comment blocks are put together from: two
\* words that, after the prefix and a word of 30 (38) characters, end at
\* column 70 (78) and one column past it, a word longer than a line, and
\* white space.
WrapPieces ==
  {Repeat("b", 30), Repeat("h", 38), Repeat("c", 34), Repeat("d", 35), Repeat("g", 74),
   <<" ">>, <<"\n">>}

\* How many pieces a text of a comment block has at most.
MaxWrapPieces == 4

\* The prefixes wrapText is called with: those of the explanation and the
\* visualization, and those of the first warning.
WrapPrefixes == {<<CommentPrefix, CommentPrefix>>, <<<<"-", "-", " ", " ", " ", "1", ".", " ">>, <<"-", "-", " ", " ", " ", " ", " ", " ">>>>}

\* The text of the block grows by one piece.
AppendWrapPiece(c) ==
  /\ wrapping.called = "none"
  /\ wrapping.pieces < MaxWrapPieces
  /\ wrapping' = [wrapping EXCEPT !.text = @ \o c, !.pieces = @ + 1]
  /\ UNCHANGED <<cfgVars, concVars, genVars, sqlVars, unitVars, translation, parsing, formatting>>

\* format_multiline_comment(text)
FormatMultilineComment ==
  /\ wrapping.called = "none"
  /\ wrapping' = [called |-> "format_multiline_comment", text |-> wrapping.text,
                  pieces |-> wrapping.pieces,
                  first_line_prefix |-> CommentPrefix,
                  continuation_prefix |-> CommentPrefix,
                  max_width |-> DefaultCommentWidth,
                  block |-> format_multiline_comment(wrapping.text, CommentPrefix,
                                                     DefaultCommentWidth)]
  /\ UNCHANGED <<cfgVars, concVars, genVars, sqlVars, unitVars, translation, parsing, formatting>>

\* wrapText(text, first_line_prefix, continuation_prefix)
WrapText(prefixes) ==
  /\ wrapping.called = "none"
  /\ wrapping' = [called |-> "wrapText", text |-> wrapping.text,
                  pieces |-> wrapping.pieces,
                  first_line_prefix |-> prefixes[1],
                  continuation_prefix |-> prefixes[2],
                  max_width |-> DefaultWrapWidth,
                  block |-> wrapText(wrapping.text, prefixes[1], prefixes[2],
                                     DefaultWrapWidth)]
  /\ UNCHANGED <<cfgVars, concVars, genVars, sqlVars, unitVars, translation, parsing, formatting>>

NextWrap ==
  \/ \E c \in WrapPieces : AppendWrapPiece(c)
  \/ FormatMultilineComment
  \/ \E prefixes \in WrapPrefixes : WrapText(prefixes)

SpecWrap == InitText /\ [][NextWrap]_vars

(***************************************************************************)
(* ResponseFormatter::formatResponse (response_formatter.cpp): the         *)
(* QueryResult as a JSON document or as plain text.  The JSON document is  *)
(* what nlohmann::json keeps and dumps: the members in the order of their  *)
(* keys, every string with its quotes, backslashes and line feeds escaped. *)
(***************************************************************************)

RECURSIVE escape(_)
\* dump(): the characters of a string as they stand between the quotes
escape(s) ==
  IF s = <<>> THEN <<>>
  ELSE (CASE Head(s) = "\"" -> <<"\\", "\"">>
          [] Head(s) = "\\" -> <<"\\", "\\">>
          [] Head(s) = "\n" -> <<"\\", "n">>
          [] OTHER -> <<Head(s)>>) \o escape(Tail(s))

RECURSIVE unescape(_)
\* parse(): the string that stands between the quotes
unescape(t) ==
  IF t = <<>> THEN <<>>
  ELSE IF Head(t) = "\\" /\ Len(t) >= 2
  THEN <<IF t[2] = "n" THEN "\n" ELSE t[2]>> \o unescape(SubSeq(t, 3, Len(t)))
  ELSE <<Head(t)>> \o unescape(Tail(t))

\* dump() of a string
dumpString(s) == <<"\"">> \o escape(s) \o <<"\"">>

\* dump() of a bool
dumpBool(b) == IF b THEN <<"t", "r", "u", "e">> ELSE <<"f", "a", "l", "s", "e">>

RECURSIVE dumpItems(_)
\* dump() of the items of an array of strings
dumpItems(items) ==
  IF items = <<>> THEN <<>>
  ELSE dumpString(Head(items))
         \o (IF Len(items) > 1 THEN <<",">> ELSE <<>>) \o dumpItems(Tail(items))

\* One member of the document: its key and the text of its value.
JsonMember(key, text) == [key |-> key, text |-> text]

\* response[key] = value, for the fields that are there under a condition
optional(cond, key, text) == IF cond THEN <<JsonMember(key, text)>> ELSE <<>>

\* createJSONResponse with the optional fields put in whatever the flags say.
createJSONResponse_IgnoresFlags(res, config) ==
  optional(res.explanation # <<>>, "explanation", dumpString(res.explanation))
  \o <<JsonMember("query", dumpString(res.generated_query))>>
  \o optional(res.row_limit_applied, "row_limit_applied", dumpBool(TRUE))
  \o <<JsonMember("success", dumpBool(res.success))>>
  \o optional(res.suggested_visualization # <<>>,
              "suggested_visualization", dumpString(res.suggested_visualization))
  \o optional(res.warnings # <<>>,
              "warnings", <<"[">> \o dumpItems(res.warnings) \o <<"]">>)

\* ResponseFormatter::createJSONResponse(result, config)
createJSONResponse(res, config) ==
  optional(config.show_explanation /\ res.explanation # <<>>,
           "explanation", dumpString(res.explanation))
  \o <<JsonMember("query", dumpString(res.generated_query))>>
  \o optional(res.row_limit_applied, "row_limit_applied", dumpBool(TRUE))
  \o <<JsonMember("success", dumpBool(res.success))>>
  \o optional(config.show_suggested_visualization /\ res.suggested_visualization # <<>>,
              "suggested_visualization", dumpString(res.suggested_visualization))
  \o optional(config.show_warnings /\ res.warnings # <<>>,
              "warnings", <<"[">> \o dumpItems(res.warnings) \o <<"]">>)

RECURSIVE numbered(_, _)
\* for (size_t i = 0; i < warnings.size(); ++i) { ... }, from warning i on
numbered(warnings, i) ==
  IF i > Len(warnings) THEN <<>>
  ELSE format_multiline_comment(to_string(i) \o <<".", " ">> \o warnings[i], CommentPrefix,
                                DefaultCommentWidth)
         \o (IF i < Len(warnings) THEN <<"\n">> ELSE <<>>)
         \o numbered(warnings, i + 1)

\* ResponseFormatter::formatWarnings(warnings)
formatWarnings(warnings) ==
  IF Len(warnings) = 1
  THEN <<"-", "-", " ", "W", "a", "r", "n", "i", "n", "g", ":", "\n">>
         \o format_multiline_comment(warnings[1], CommentPrefix, DefaultCommentWidth)
  ELSE <<"-", "-", " ", "W", "a", "r", "n", "i", "n", "g", "s", ":", "\n">> \o numbered(warnings, 1)

\* ResponseFormatter::formatVisualization(visualization)
formatVisualization(visualization) ==
  <<"-", "-", " ", "S", "u", "g", "g", "e", "s", "t", "e", "d", " ", "V", "i", "s", "u", "a", "l", "i", "z", "a", "t", "i", "o", "n", ":", "\n">>
    \o format_multiline_comment(visualization, CommentPrefix, DefaultCommentWidth)

\* ResponseFormatter::createPlainTextResponse(result, config)
createPlainTextResponse(res, config) ==
  <<"-", "-", " ", "Q", "u", "e", "r", "y", ":", "\n">>
  \o res.generated_query
  \o (IF config.show_explanation /\ res.explanation # <<>>
      THEN <<"\n", "\n", "-", "-", " ", "E", "x", "p", "l", "a", "n", "a", "t", "i", "o", "n", ":", "\n">>
             \o format_multiline_comment(res.explanation, CommentPrefix,
                                         DefaultCommentWidth)
      ELSE <<>>)
  \o (IF config.show_warnings /\ res.warnings # <<>>
      THEN <<"\n", "\n">> \o formatWarnings(res.warnings)
      ELSE <<>>)
  \o (IF config.show_suggested_visualization /\ res.suggested_visualization # <<>>
      THEN <<"\n", "\n">> \o formatVisualization(res.suggested_visualization)
      ELSE <<>>)
  \o (IF res.row_limit_applied
      THEN <<"\n", "\n", "-", "-", " ", "N", "o", "t", "e", ":", " ", "R", "o", "w", " ", "l", "i", "m", "i", "t", " ", "w", "a", "s", " ", "a", "u", "t", "o", "m", "a", "t", "i", "c", "a", "l", "l", "y", " ", "a", "p", "p", "l", "i", "e", "d", " ", "t", "o", " ", "t", "h", "i", "s", " ", "q", "u", "e", "r", "y", " ", "f", "o", "r", " ", "s", "a", "f", "e", "t", "y">>
      ELSE <<>>)

\* ResponseFormatter::formatResponse(result, config)
formatResponse(res, config) ==
  IF config.use_formatted_response
  THEN createJSONResponse(res, config)
  ELSE createPlainTextResponse(res, config)

\* The QueryResults of the model: a query with and without characters that
\* JSON escapes, and every field empty or not.
QueryResults ==
  [generated_query : {<<"S", "E", "L", "E", "C", "T", " ", "1">>, <<"'", "\"", "\\", "\n", "n">>},
   success : BOOLEAN,
   explanation : {<<>>, <<"a", "l", "l", " ", "o", "f", " ", "i", "t">>},
   warnings : {<<>>, <<<<"s", "l", "o", "w">>>>, <<<<"s", "l", "o", "w">>, <<"n", "o", " ", "i", "n", "d", "e", "x">>>>},
   suggested_visualization : {<<>>, <<"b", "a", "r">>},
   row_limit_applied : BOOLEAN]

\* The [response] flags of a configuration.
ResponseFlags ==
  {[Configuration EXCEPT !.show_explanation = f[1], !.show_warnings = f[2],
                         !.show_suggested_visualization = f[3],
                         !.use_formatted_response = f[4]] :
     f \in BOOLEAN \X BOOLEAN \X BOOLEAN \X BOOLEAN}

\* ResponseFormatter::formatResponse(result, config)
FormatResponse(res, config) ==
  /\ ~formatting.called
  /\ formatting' = [called |-> TRUE, result |-> res, config |-> config,
                    response |-> formatResponse(res, config)]
  /\ UNCHANGED <<cfgVars, concVars, genVars, sqlVars, unitVars, translation, parsing, wrapping>>

\* The text was returned to the caller of generate_query.
ReturnResponse ==
  /\ formatting.called
  /\ formatting' = [called |-> FALSE]
  /\ UNCHANGED <<cfgVars, concVars, genVars, sqlVars, unitVars, translation, parsing, wrapping>>

NextFormat ==
  \/ \E res \in QueryResults : \E config \in ResponseFlags : FormatResponse(res, config)
  \/ ReturnResponse

SpecFormat == InitText /\ [][NextFormat]_vars

(***************************************************************************)
(* The text of the configuration file: parseConfig's reading of one line   *)
(* (config.cpp 180-260), from the characters of the line to the Sec / Kv / *)
(* Garbage / Blank the loop acts on.                                       *)
(***************************************************************************)

\* std::string::npos
npos == 0 - 1

RECURSIVE str(_)
\* The std::string of a run of characters.
str(s) == IF s = <<>> THEN "" ELSE Head(s) \o str(Tail(s))

\* [a-zA-Z0-9_] of the pattern of isValidLine
KeyChars ==
  {"a", "b", "c", "d", "e", "f", "g", "h", "i", "j", "k", "l", "m", "n", "o", "p", "q", "r",
   "s", "t", "u", "v", "w", "x", "y", "z", "A", "B", "C", "D", "E", "F", "G", "H", "I", "J",
   "K", "L", "M", "N", "O", "P", "Q", "R", "S", "T", "U", "V", "W", "X", "Y", "Z", "0", "1",
   "2", "3", "4", "5", "6", "7", "8", "9", "_"}

\* \s of the pattern
Blanks == {" ", "\t", "\n", "\r", "\f"}

\* \s* from character i on (i characters are consumed): where it ends.
spacesEnd(s, i) ==
  CHOOSE j \in i..Len(s) :
    /\ \A k \in (i + 1)..j : s[k] \in Blanks
    /\ j = Len(s) \/ s[j + 1] \notin Blanks

\* [a-zA-Z0-9_]* from character i on: where it ends.
keyEnd(s, i) ==
  CHOOSE j \in i..Len(s) :
    /\ \A k \in (i + 1)..j : s[k] \in KeyChars
    /\ j = Len(s) \/ s[j + 1] \notin KeyChars

\* \s*(\s*#.*)? matches what follows character r, to the end of the line.
tailOk(s, r) == spacesEnd(s, r) = Len(s) \/ s[spacesEnd(s, r) + 1] = "#"

\* q((?:\\.|[^q])*)q and the tail match from character p on: a quote of the
\* inside has a backslash before it that the alternative \\. takes with it.
quotedOk(s, p, q) ==
  /\ p < Len(s)
  /\ s[p + 1] = q
  /\ \E c \in (p + 2)..Len(s) :
       /\ s[c] = q
       /\ \A j \in (p + 2)..(c - 1) : s[j] = q => (j > p + 2 /\ s[j - 1] = "\\")
       /\ tailOk(s, c)

\* [^\s'"]* and the tail match from character p on.
unquotedOk(s, p) ==
  \E r \in p..Len(s) :
    /\ \A k \in (p + 1)..r : s[k] \notin Blanks /\ s[k] \notin {"'", "\""}
    /\ tailOk(s, r)

\* \s*=\s*(value)... matches from character k on, the key ending there.
afterKey(s, k) ==
  /\ spacesEnd(s, k) < Len(s)
  /\ s[spacesEnd(s, k) + 1] = "="
  /\ \/ quotedOk(s, spacesEnd(s, spacesEnd(s, k) + 1), "\"")
     \/ quotedOk(s, spacesEnd(s, spacesEnd(s, k) + 1), "'")
     \/ unquotedOk(s, spacesEnd(s, spacesEnd(s, k) + 1))

\* bool isValidLine(line): std::regex_match of the whole line with kv_pattern
isValidLine(s) ==
  /\ keyEnd(s, spacesEnd(s, 0)) > spacesEnd(s, 0)
  /\ afterKey(s, keyEnd(s, spacesEnd(s, 0)))

RECURSIVE findClosingQuote(_, _, _, _)
\* size_t findClosingQuote(value, quote): the loop from i on.
findClosingQuote(value, quote, i, escaped) ==
  IF i >= Len(value) THEN npos
  ELSE IF escaped THEN findClosingQuote(value, quote, i + 1, FALSE)
  ELSE IF At(value, i) = "\\" THEN findClosingQuote(value, quote, i + 1, TRUE)
  ELSE IF At(value, i) = quote THEN i
  ELSE findClosingQuote(value, quote, i + 1, FALSE)

RECURSIVE unescapeQuotes(_, _, _)
\* std::string unescapeQuotes(value): the loop from character i on; escaped
\* is cleared only by a quote.
unescapeQuotes(value, i, escaped) ==
  IF i > Len(value) THEN <<>>
  ELSE IF escaped /\ value[i] \in {"'", "\""}
  THEN <<value[i]>> \o unescapeQuotes(value, i + 1, FALSE)
  ELSE IF value[i] = "\\" THEN unescapeQuotes(value, i + 1, TRUE)
  ELSE <<value[i]>> \o unescapeQuotes(value, i + 1, escaped)

\* The value without its inline comment.
withoutComment(value) ==
  IF find(value, <<"#">>) THEN trim(SubSeq(value, 1, findPos(value, <<"#">>))) ELSE value

\* A key whose quote is not closed: the loop goes on with the next line.
Skipped(key) == [t |-> "blank", name |-> "", key |-> str(key), val |-> ""]

\* The quoted value between its quotes, closing being where the quote closes.
quotedValue(key, value, closing) ==
  IF closing # npos
  THEN Kv(str(key), str(unescapeQuotes(SubSeq(value, 2, closing), 1, FALSE)))
  ELSE Skipped(key)

\* Handle quoted values and inline comments (config.cpp 229-248)
keyValue(key, value) ==
  IF Len(value) >= 2 /\ value[1] \in {"\"", "'"}
  THEN quotedValue(key, value, findClosingQuote(value, value[1], 1, FALSE))
  ELSE Kv(str(key), str(withoutComment(value)))

\* The line split at its first '=' (eq_pos).
splitAt(s, eq_pos) == keyValue(trim(SubSeq(s, 1, eq_pos)), trim(SubSeq(s, eq_pos + 2, Len(s))))

\* One trimmed line, as the loop of parseConfig takes it.
readLine(s) ==
  IF s = <<>> \/ s[1] = "#" THEN Blank
  ELSE IF s[1] = "[" /\ find(s, <<"]">>) THEN Sec(str(SubSeq(s, 2, findPos(s, <<"]">>))))
  ELSE IF ~isValidLine(s) THEN Garbage
  ELSE IF ~find(s, <<"=">>) THEN Blank
  ELSE splitAt(s, findPos(s, <<"=">>))

\* A line of MAX_CONFIG_LINE_LENGTH characters or more.
TooLong == <<"<MAX_CONFIG_LINE_LENGTH>">>

\* The carriage return at the end of the line removed.
withoutCR(s) == IF s # <<>> /\ s[Len(s)] = "\r" THEN SubSeq(s, 1, Len(s) - 1) ELSE s

\* One line of std::getline, as the loop of parseConfig takes it.
lineOf(s) == IF s = TooLong THEN Garbage ELSE readLine(trim(withoutCR(s)))

\* The lines of a file.
linesOf(content) == [i \in 1..Len(content) |-> lineOf(content[i])]

\* The text between double quotes.
Quoted(s) == <<"\"">> \o s \o <<"\"">>

\* The lines the documents of the model are made of.
RawLines ==
  {<<"[", "o", "p", "e", "n", "a", "i", "]">> \o <<"\r">>,
   <<"[", "q", "u", "e", "r", "y", "]">>,
   <<"[", "b", "o", "g", "u", "s", "]">>,
   TooLong,
   <<"a", "p", "i", "_", "k", "e", "y", " ", "=", " ">> \o Quoted(<<"s", "k", "-", "1">>) \o <<" ", "#", " ", "m", "a", "i", "n">>,
   <<"a", "p", "i", "_", "k", "e", "y", " ", "=", " ">> \o <<"\"">> \o <<"s", "k", "-", "2">>,
   <<"a", "p", "i", "_", "k", "e", "y", " ", "=", " ", "'", "s", "k", "-", "3", "\\", "'">>,
   <<"d", "e", "f", "a", "u", "l", "t", "_", "m", "o", "d", "e", "l", " ", "=", " ", "g", "p", "t", "-", "4", "o", "-", "m", "i", "n", "i">>,
   <<"m", "a", "x", "_", "t", "o", "k", "e", "n", "s", " ", "=", " ", "1", "2", "a", "b", "c">>,
   <<"t", "e", "m", "p", "e", "r", "a", "t", "u", "r", "e", " ", "=", " ", "h", "o", "t">>,
   <<"d", "e", "f", "a", "u", "l", "t", "_", "l", "i", "m", "i", "t", " ", "=", " ", "a", "b", "c">>,
   <<"e", "n", "f", "o", "r", "c", "e", "_", "l", "i", "m", "i", "t", "=", "n", "o", "#", "o", "f", "f">>}

MaxLines == 3

\* A line is added to the file.
AppendRawLine(s) ==
  /\ ~inifile.called
  /\ Len(inifile.lines) < MaxLines
  /\ inifile' = [inifile EXCEPT !.lines = Append(@, s)]
  /\ UNCHANGED <<cfgVars, concVars, genVars, sqlVars, textVars, creation, spi>>

\* What loadConfig(path) left: what it returned and the ConfigManager state.
Loaded(r) ==
  inifile' = [called |-> TRUE, lines |-> inifile.lines, ret |-> r.ret,
              config_ |-> r.st.config_, config_loaded_ |-> r.st.config_loaded_]

\* loadConfig(path) on the file, in a process that has loaded nothing.
LoadDocument ==
  /\ ~inifile.called
  /\ Loaded(loadConfigPath(InitialState, linesOf(inifile.lines)))
  /\ UNCHANGED <<cfgVars, concVars, genVars, sqlVars, textVars, creation, spi>>

\* The next file.
NextDocument ==
  /\ inifile.called
  /\ inifile' = [called |-> FALSE, lines |-> <<>>]
  /\ UNCHANGED <<cfgVars, concVars, genVars, sqlVars, textVars, creation, spi>>

NextDoc ==
  \/ \E s \in RawLines : AppendRawLine(s)
  \/ LoadDocument
  \/ NextDocument

SpecDoc == InitText /\ [][NextDoc]_vars

(***************************************************************************)
(* AIClientFactory (ai_client_factory.cpp): the client and the model name  *)
(* for a provider.  ai::openai::create_client and                          *)
(* ai::anthropic::create_client belong to the ai-sdk-cpp library; whether  *)
(* they throw for a credential is the library's choice.                    *)
(***************************************************************************)

DEFAULT_OPENAI_ENDPOINT == "https://api.openai.com"

DEFAULT_ANTHROPIC_ENDPOINT == "https://api.anthropic.com"

DEFAULT_OPENAI_MODEL == "gpt-4o"

DEFAULT_ANTHROPIC_MODEL == "claude-sonnet-4-5-20250929"

\* AIClientResult result; result.success = true;
NoClientResult ==
  [success |-> TRUE, model_name |-> "", error_message |-> "",
   client |-> [sdk |-> "none", api_key |-> "", base_url |-> ""]]

\* provider_config && !provider_config->api_endpoint.empty() ? ... : fallback;
\* the pointer is <<>> for nullptr, <<config>> otherwise.
endpointOr(provider_config, fallback) ==
  IF provider_config # <<>> /\ provider_config[1].api_endpoint # ""
  THEN provider_config[1].api_endpoint ELSE fallback

\* provider_config && !provider_config->default_model.empty() ? ... : fallback
modelOr(provider_config, fallback) ==
  IF provider_config # <<>> /\ provider_config[1].default_model # ""
  THEN provider_config[1].default_model ELSE fallback

\* The catch block: the library threw while the client was made.
clientFailed ==
  [NoClientResult EXCEPT !.success = FALSE,
                         !.error_message = "Failed to create AI client: <e.what()>"]

\* result.client = create_client(api_key, base_url); result.model_name = model
clientMade(sdk, api_key, base_url, model, throws) ==
  IF throws THEN clientFailed
  ELSE [NoClientResult EXCEPT !.client = [sdk |-> sdk, api_key |-> api_key, base_url |-> base_url],
                              !.model_name = model]

\* AIClientResult createClient(provider, api_key, provider_config); throws
\* says that the library's create_client throws.
createClient(provider, api_key, provider_config, throws) ==
  CASE provider = "OPENAI" ->
         clientMade("openai", api_key, endpointOr(provider_config, DEFAULT_OPENAI_ENDPOINT),
                    modelOr(provider_config, DEFAULT_OPENAI_MODEL), throws)
    [] provider = "ANTHROPIC" ->
         clientMade("anthropic", api_key,
                    endpointOr(provider_config, DEFAULT_ANTHROPIC_ENDPOINT),
                    modelOr(provider_config, DEFAULT_ANTHROPIC_MODEL), throws)
    [] OTHER ->
         clientMade("openai", api_key, DEFAULT_OPENAI_ENDPOINT, DEFAULT_OPENAI_MODEL, throws)

\* std::string getDefaultModel(provider)
getDefaultModel(provider) ==
  CASE provider = "OPENAI" -> DEFAULT_OPENAI_MODEL
    [] provider = "ANTHROPIC" -> DEFAULT_ANTHROPIC_MODEL
    [] OTHER -> DEFAULT_OPENAI_MODEL

\* The values of config::Provider a caller can pass: the enumerators and
\* static_cast<Provider>(999).
ProviderValues == KnownProviders \cup {"UNKNOWN", "999"}

ClientKeys == {"", "sk-test"}

\* nullptr, and the configurations of the three providers with and without
\* a model and an endpoint of their own.
ClientConfigs ==
  {<<>>} \cup
  {<<[getProviderDefaultConfigValues(p) EXCEPT !.default_model = model,
                                               !.api_endpoint = url,
                                               !.api_key = "sk-test"]>> :
     p \in KnownProviders, model \in {"", "model-of-the-file"},
     url \in {"", "https://proxy.example"}}

\* createClient(provider, api_key, provider_config), the library rejecting
\* the credentials in `rejected`.
CreateClient(provider, api_key, provider_config, rejected) ==
  /\ creation' = [called |-> "createClient", provider |-> provider, api_key |-> api_key,
                  provider_config |-> provider_config, threw |-> api_key \in rejected,
                  result |-> createClient(provider, api_key, provider_config,
                                          api_key \in rejected)]
  /\ UNCHANGED <<cfgVars, concVars, genVars, sqlVars, textVars, inifile, spi>>

\* getDefaultModel(provider)
GetDefaultModel(provider) ==
  /\ creation' = [called |-> "getDefaultModel", provider |-> provider,
                  model_name |-> getDefaultModel(provider)]
  /\ UNCHANGED <<cfgVars, concVars, genVars, sqlVars, textVars, inifile, spi>>

NextClient ==
  \/ \E provider \in ProviderValues : \E api_key \in ClientKeys :
       \E provider_config \in ClientConfigs : \E rejected \in SUBSET ClientKeys :
         CreateClient(provider, api_key, provider_config, rejected)
  \/ \E provider \in ProviderValues : GetDefaultModel(provider)

SpecClient == InitText /\ [][NextClient]_vars

(***************************************************************************)
(* SPIConnection (spi_connection.hpp, spi_connection.cpp): the RAII owner  *)
(* of one SPI connection.  The fields connected_ and error_message_ are    *)
(* the class's; alive, conn (the SPI_connect an object answers for),       *)
(* moved and by_move are history kept to state what the class must do.     *)
(***************************************************************************)

\* SPIConnection::SPIConnection(); ok says that SPI_connect() returned
\* SPI_OK_CONNECT.
constructor(ok) ==
  IF ok THEN [NoObject EXCEPT !.alive = TRUE, !.connected_ = TRUE]
  ELSE [NoObject EXCEPT !.alive = TRUE, !.connected_ = FALSE,
                        !.error_message_ = "Failed to connect to SPI"]

\* SPIConnection::~SPIConnection(): the number of SPI_finish() calls.
destructor(this) == IF this.connected_ THEN 1 ELSE 0

\* A move constructor that leaves the source connected.
moveConstructor_KeepsOther(other, left) ==
  [this |-> [NoObject EXCEPT !.alive = TRUE, !.connected_ = other.connected_,
                             !.error_message_ = other.error_message_],
   other |-> [other EXCEPT !.error_message_ = left]]

\* SPIConnection::SPIConnection(SPIConnection&& other); left is the text
\* std::move leaves in other.error_message_.
moveConstructor(other, left) ==
  [this |-> [NoObject EXCEPT !.alive = TRUE, !.connected_ = other.connected_,
                             !.error_message_ = other.error_message_],
   other |-> [other EXCEPT !.connected_ = FALSE, !.error_message_ = left]]

\* SPIConnection& operator=(SPIConnection&& other); same is this == &other.
moveAssignment(this, other, same, left) ==
  IF same THEN [this |-> this, other |-> other, finishes |-> 0]
  ELSE [this |-> [this EXCEPT !.connected_ = other.connected_,
                              !.error_message_ = other.error_message_],
        other |-> [other EXCEPT !.connected_ = FALSE, !.error_message_ = left],
        finishes |-> IF this.connected_ THEN 1 ELSE 0]

\* bool isConnected() const
isConnected(this) == this.connected_

\* What std::move may leave in a moved-from std::string: valid, unspecified.
MovedFrom(s) == {"", s}

\* SPI_finish() called n times by the object that answers for conn.
finishedBy(n, conn) == IF n = 1 THEN Append(spi.finished, conn) ELSE spi.finished

\* SPIConnection conn;
Construct(o, ok) ==
  /\ ~spi.objects[o].alive
  /\ spi.connects + spi.failures < MaxConnects
  /\ spi' = [spi EXCEPT
       !.objects[o] = [constructor(ok) EXCEPT
                         !.conn = IF ok THEN spi.connects + 1 ELSE 0],
       !.connects = IF ok THEN @ + 1 ELSE @,
       !.failures = IF ok THEN @ ELSE @ + 1,
       !.last = [op |-> "construct", was_moved |-> FALSE, by_move |-> FALSE,
                 finishes |-> 0]]
  /\ UNCHANGED <<cfgVars, concVars, genVars, sqlVars, textVars, inifile, creation>>

\* SPIConnection conn(std::move(other));
MoveConstruct(o, other, left) ==
  /\ o # other
  /\ ~spi.objects[o].alive
  /\ spi.objects[other].alive
  /\ left \in MovedFrom(spi.objects[other].error_message_)
  /\ LET r == moveConstructor(spi.objects[other], left)
     IN spi' = [spi EXCEPT
          !.objects[o] = [r.this EXCEPT !.conn = spi.objects[other].conn,
                                        !.by_move = TRUE],
          !.objects[other] = [r.other EXCEPT !.conn = 0, !.moved = TRUE],
          !.last = [op |-> "move", was_moved |-> FALSE, by_move |-> FALSE,
                    finishes |-> 0]]
  /\ UNCHANGED <<cfgVars, concVars, genVars, sqlVars, textVars, inifile, creation>>

\* conn = std::move(other);
MoveAssign(o, other, left) ==
  /\ spi.objects[o].alive
  /\ spi.objects[other].alive
  /\ left \in MovedFrom(spi.objects[other].error_message_)
  /\ LET r == moveAssignment(spi.objects[o], spi.objects[other], o = other, left)
         was == [op |-> "assign", was_moved |-> spi.objects[o].moved,
                 by_move |-> spi.objects[o].by_move, finishes |-> r.finishes]
     IN IF o = other
        THEN spi' = [spi EXCEPT !.objects[o] = r.this, !.last = was]
        ELSE spi' = [spi EXCEPT
               !.objects[o] = [r.this EXCEPT !.conn = spi.objects[other].conn,
                                             !.moved = FALSE, !.by_move = TRUE],
               !.objects[other] = [r.other EXCEPT !.conn = 0, !.moved = TRUE],
               !.finished = finishedBy(r.finishes, spi.objects[o].conn),
               !.last = was]
  /\ UNCHANGED <<cfgVars, concVars, genVars, sqlVars, textVars, inifile, creation>>

\* The object goes out of scope.
Destruct(o) ==
  /\ spi.objects[o].alive
  /\ spi' = [spi EXCEPT
       !.objects[o] = NoObject,
       !.finished = finishedBy(destructor(spi.objects[o]), spi.objects[o].conn),
       !.last = [op |-> "destruct", was_moved |-> spi.objects[o].moved,
                 by_move |-> spi.objects[o].by_move,
                 finishes |-> destructor(spi.objects[o])]]
  /\ UNCHANGED <<cfgVars, concVars, genVars, sqlVars, textVars, inifile, creation>>

NextSpi ==
  \/ \E o \in SpiObjects : \E ok \in BOOLEAN : Construct(o, ok)
  \/ \E o, other \in SpiObjects :
       \E left \in {"", "Failed to connect to SPI"} : MoveConstruct(o, other, left)
  \/ \E o, other \in SpiObjects :
       \E left \in {"", "Failed to connect to SPI"} : MoveAssign(o, other, left)
  \/ \E o \in SpiObjects : Destruct(o)

SpecSpi == InitText /\ [][NextSpi]_vars

(***************************************************************************)
(* Session overrides (spec.md 4.1) and lazy loading                        *)
(***************************************************************************)

\* The configuration the file of the home directory parses to.
FileConfig == parseConfig(file).cfg

\* A completed applyGucOverrides on a loaded configuration.
Applied ==
  last.op = "applyGucOverrides" /\ last.ret # "throw" /\ config_loaded_

\* C1: once the base configuration is loaded, applyGucOverrides(null,
\* null, null) leaves the effective configuration equal to what the file
\* parses to, whatever override was applied before: the file's credentials
\* are back and the entries an override synthesized are gone.
C1_OverrideResetRoundTrip ==
  (Applied /\ last.o = NoOverride) => config_ = FileConfig

\* C1 happens: a reset follows an override that had changed a credential
\* and added an entry the file does not declare.
C1_Witness ==
  /\ Applied /\ last.o = NoOverride
  /\ last.was_overridden /\ last.was_synthesized
  /\ config_ = FileConfig

\* The credential provider p has in cfg; "<absent>" when cfg has no entry.
Credential(cfg, p) ==
  IF \E i \in 1..Len(cfg.providers) : cfg.providers[i].provider = p
  THEN cfg.providers[CHOOSE i \in 1..Len(cfg.providers) :
                       cfg.providers[i].provider = p].api_key
  ELSE "<absent>"

Slot(p) == CASE p = "OPENAI" -> 1 [] p = "ANTHROPIC" -> 2 [] OTHER -> 3

\* C2: after an applyGucOverrides call on a loaded configuration every
\* provider has the credential the last call passed for it, and the file's
\* credential (or no entry) where the last call passed null or "": nothing
\* of an earlier call survives.
C2_OverridesNotCumulative ==
  Applied =>
    /\ \A p \in KnownProviders :
         Credential(config_, p) =
           IF last.o[Slot(p)] \in {NULL, ""} THEN Credential(FileConfig, p)
           ELSE last.o[Slot(p)]
    /\ \A i, j \in 1..Len(config_.providers) :
         config_.providers[i].provider = config_.providers[j].provider => i = j

\* C2 happens: an override that had set a credential is followed by a call
\* that passes null for some provider and a credential for another.
C2_Witness ==
  /\ Applied /\ last.was_overridden /\ last.was_loaded
  /\ last.o[2] = NULL /\ last.o[3] = "sk-guc"
  /\ Credential(config_, "ANTHROPIC") = Credential(FileConfig, "ANTHROPIC")
  /\ Credential(config_, "GEMINI") = "sk-guc"

\* C3 as stated: from the unloaded state, the accessor calls read the file
\* exactly once between them.
C3_ReadExactlyOnce == calls >= 1 => reads = 1

\* C3, amended: when the file of the home directory loads, it is read once,
\* by the first accessor call, and never again; when the load fails (no
\* file, a file that does not parse) every accessor call reads it again;
\* when the home directory is not found no call reads anything.
C3_ReadOnceWhenLoaded ==
  calls >= 1 =>
    IF config_loaded_ THEN reads = 1
    ELSE reads = (IF home_ok THEN calls ELSE 0)

\* C3 happens: several accessor calls, one read.
C3_Witness ==
  /\ calls = MaxCalls /\ config_loaded_ /\ reads = 1
  /\ last.op = "getProviderConfig" /\ last.was_loaded

\* C5: loadConfig(path) on a path that does not exist raises, and leaves
\* config_loaded_ as it was.
C5_MissingFileRaises ==
  (last.op = "loadConfig" /\ last.arg = "nonexistent") =>
    (last.ret = "throw" /\ config_loaded_ = last.was_loaded)

\* C5 happens: the call was made on an unloaded configuration.
C5_Witness ==
  /\ last.op = "loadConfig" /\ last.arg = "nonexistent"
  /\ last.ret = "throw" /\ ~last.was_loaded /\ ~config_loaded_

\* C4: with callers inside getConfig / getProviderConfig at the same time
\* on an unloaded configuration whose file loads, parseConfig runs once,
\* and what a caller is handed is never a configuration another caller is
\* still parsing: it is the whole parsed file.
C4_FirstLoadSerialized ==
  (home_ok /\ parseConfig(file).ret = "true") =>
    /\ parses <= 1
    /\ \A t \in Threads :
         pc[t] = "done" => (~result[t].during_parse /\ result[t].cfg = FileConfig)

\* The provider selection of the running invocation has just been made.
JustSelected ==
  stage \in {"prompt", "check"} /\ trace # <<>> /\ trace[Len(trace)] = "select"

\* The providers that have a credential in the effective configuration.
Ready == {p \in KnownProviders : Credential(config_, p) \notin {"", "<absent>"}}

\* C6: with preference "auto", a caller credential selects OpenAI with that
\* credential whatever is configured; without one the selection is the
\* first of OpenAI, Anthropic, Gemini that has a configured credential, and
\* fails when none has.
C6_AutoSelection ==
  (JustSelected /\ req.provider = "auto") =>
    IF req.api_key # ""
    THEN sel.success /\ sel.provider = "OPENAI" /\ sel.api_key = req.api_key
    ELSE IF Ready = {} THEN ~sel.success
    ELSE /\ sel.success
         /\ sel.provider \in Ready
         /\ \A p \in Ready : Slot(sel.provider) <= Slot(p)
         /\ sel.api_key = Credential(config_, sel.provider)

\* C6 happens: no caller credential, OpenAI configured without a
\* credential, Anthropic and Gemini both with one: Anthropic is selected.
C6_Witness ==
  /\ JustSelected /\ req.provider = "auto" /\ req.api_key = ""
  /\ Credential(config_, "OPENAI") = ""
  /\ Ready = {"ANTHROPIC", "GEMINI"}
  /\ sel.success /\ sel.provider = "ANTHROPIC"

\* The credential the file gives provider p, "" when it gives none.
FileCredential(p) ==
  IF Credential(FileConfig, p) = "<absent>" THEN "" ELSE Credential(FileConfig, p)

\* The credential C7 expects for provider p.
Expected(p) ==
  IF req.api_key # "" THEN req.api_key
  ELSE IF guc[Slot(p)] \notin {NULL, ""} THEN guc[Slot(p)]
  ELSE FileCredential(p)

IsPrefix(t, order) ==
  Len(t) <= Len(order) /\ \A i \in 1..Len(t) : t[i] = order[i]

\* C8: the stages an invocation has run are an initial part of the fixed
\* order (each at most once, the AI call never twice); after a failure the
\* failed stage stays the last one run; the formatting runs only for a
\* successful result.
C8_StagesOnceInOrder ==
  /\ IsPrefix(trace, StageOrder)
  /\ failed_at # "" => (trace # <<>> /\ trace[Len(trace)] = failed_at)
  /\ (trace # <<>> /\ trace[Len(trace)] = "format") => (outcome.success /\ failed_at = "")

\* C8 happens: an invocation ran all seven stages with max_retries = 5.
C8_Witness ==
  /\ stage = "returned" /\ trace = StageOrder
  /\ config_.max_retries = 5
  /\ outcome.success

\* One thing is_select_only_query skips ends at k, having started after j:
\* a whitespace character, a line comment up to its newline or the end of
\* the text, a block comment up to its first closing pair.
Skips(s, j, k) ==
  \/ k = j + 1 /\ isspace(s[k])
  \/ /\ k >= j + 2 /\ s[j + 1] = "-" /\ s[j + 2] = "-"
     /\ \A m \in (j + 3)..k : s[m] # "\n"
     /\ k = Len(s) \/ s[k + 1] = "\n"
  \/ /\ k >= j + 4 /\ s[j + 1] = "/" /\ s[j + 2] = "*"
     /\ s[k - 1] = "*" /\ s[k] = "/"
     /\ \A m \in (j + 3)..(k - 2) : ~(s[m] = "*" /\ s[m + 1] = "/")

RECURSIVE Closure(_, _)
\* The lengths of the beginnings of s that are whitespace and comments only.
Closure(s, R) ==
  IF \A k \in 0..Len(s) : (\E j \in R : j < k /\ Skips(s, j, k)) => k \in R
  THEN R
  ELSE Closure(s, R \cup {k \in 0..Len(s) : \E j \in R : j < k /\ Skips(s, j, k)})

Skippable(s) == Closure(s, {0})

\* After whitespace and comments the first token of s is select, in any case.
StartsWithSelect(s) ==
  \E k \in Skippable(s) :
    /\ k + 6 <= Len(s)
    /\ [j \in 1..6 |-> tolower(s[k + j])] = <<"s", "e", "l", "e", "c", "t">>
    /\ k + 6 = Len(s) \/ ~isword(s[k + 7])

LimitCount(s) ==
  Cardinality({k \in 0..(Len(s) - 5) :
                 /\ [j \in 1..5 |-> tolower(s[k + j])] = <<"l", "i", "m", "i", "t">>
                 /\ k = 0 \/ ~isword(s[k])
                 /\ k + 5 = Len(s) \/ ~isword(s[k + 6])})

\* C10: with enforce_limit on, a SELECT without a limit clause gets exactly
\* one, with default_limit, and row_limit_applied; a text that has a limit
\* clause and a text that is no SELECT are left as they are; applying the
\* step to its own result changes nothing.
C10_LimitIdempotent ==
  /\ once.done =>
       IF once.enforce_limit /\ StartsWithSelect(sql) /\ LimitCount(sql) = 0
       THEN /\ once.generated_query = sql \o LimitClause(once.default_limit)
            /\ once.row_limit_applied
            /\ LimitCount(once.generated_query) = 1
       ELSE once.generated_query = sql /\ ~once.row_limit_applied
  /\ twice.done =>
       /\ twice.generated_query = once.generated_query
       /\ twice.row_limit_applied = once.row_limit_applied

\* C10 happens: a SELECT behind a comment was limited once, to 1000 rows,
\* and the second application left it alone.
C10_Witness ==
  /\ twice.done /\ once.row_limit_applied
  /\ once.default_limit = DEFAULT_LIMIT
  /\ Len(sql) > 6
  /\ twice.generated_query = sql \o <<" ", "L", "I", "M", "I", "T", " ", "1", "0", "0", "0">>

(***************************************************************************)
(* The order of the checks of formatAPIError (spec.md 4.5)                 *)
(***************************************************************************)

\* A formatAPIError(provider, status_code, raw_error) call was made on a body
\* that parses as JSON and has an "error" object.
TranslatedErrorObject ==
  /\ translation.called = "status"
  /\ parsed(translation.raw_error)
  /\ translation.raw_error.body.error = "object"

\* The first class of spec.md 4.5 whose condition holds.
FirstClass(status_code, error_type, error_lower) ==
  IF status_code = 429 \/ error_type = "rate_limit_error" \/ find(error_lower, <<"r", "a", "t", "e">>)
  THEN "rate limit"
  ELSE IF \/ status_code = 401 \/ error_type = "authentication_error"
          \/ find(error_lower, <<"i", "n", "v", "a", "l", "i", "d", "_", "a", "p", "i", "_", "k", "e", "y">>) \/ find(error_lower, <<"u", "n", "a", "u", "t", "h", "o", "r", "i", "z", "e", "d">>)
  THEN "authentication"
  ELSE IF \/ status_code = 402 \/ error_type = "payment_required"
          \/ find(error_lower, <<"q", "u", "o", "t", "a">>)
  THEN "quota"
  ELSE IF \/ status_code = 408 \/ error_type = "timeout_error"
          \/ find(error_lower, <<"t", "i", "m", "e", "o", "u", "t">>) \/ find(error_lower, <<"t", "i", "m", "e", "d", " ", "o", "u", "t">>)
  THEN "timeout"
  ELSE IF \/ status_code \in {502, 503, 504}
          \/ error_type \in {"overloaded_error", "service_unavailable"}
  THEN "unavailable"
  ELSE IF error_type = "not_found_error"
  THEN "model not found"
  ELSE IF status_code >= 400 /\ status_code < 500
  THEN "generic 4xx"
  ELSE "provider message"

\* The class a returned message belongs to.
ClassOf(message) ==
  CASE message.text = "Rate limit exceeded. Please wait before making more requests."
         -> "rate limit"
    [] message.text = "Invalid API key for %provider%. Please check your ~/.pg_ai.config file."
         -> "authentication"
    [] message.text = "API quota exceeded. Check your %provider% account usage."
         -> "quota"
    [] message.text = "Request timed out. Try increasing request_timeout_ms in config."
         -> "timeout"
    [] message.text = "%provider% service is temporarily unavailable. Try again later."
         -> "unavailable"
    [] message.text \in {"Invalid model '%model_name%'. Please check your configuration and use a valid model name. Common models: 'claude-sonnet-4-5-20250929' (Anthropic), 'gpt-4o' (OpenAI).",
                         "Model not found. Please check your model configuration and ensure you're using a valid model name."}
         -> "model not found"
    [] message.text \in {"The request was invalid (%status_code%): %error_message%",
                         "The request was invalid."}
         -> "generic 4xx"
    [] message.text \in {"%error_message%", "<raw_error>"}
         -> "provider message"
    [] OTHER -> "none"

\* C11: for a body that parses as JSON with an "error" object, the message
\* formatAPIError returns is the one of the first class, in the order rate
\* limit, authentication, quota, timeout, upstream unavailable (502/503/504
\* or an overloaded/unavailable type), model not found, generic 4xx, provider
\* message, whose condition holds.
C11_FirstMatchWins ==
  TranslatedErrorObject =>
    ClassOf(translation.message)
      = FirstClass(translation.status_code, translation.raw_error.body.type.str,
                   lower(translation.raw_error.body.message.str))

\* A formatAPIError call was made on a text with no parseable JSON body.
Unparseable == translation.called # "none" /\ ~parsed(translation.raw_error)

LocatedObject ==
  /\ \E k \in 1..Len(parsing.located) : parsing.located[k] \in Objects
  /\ \A k \in 1..Len(parsing.located) : parsing.located[k] \in Objects \cup {" "}
  /\ \A k, q \in 1..Len(parsing.located) :
       (parsing.located[k] \in Objects /\ parsing.located[q] \in Objects) => k = q

FormattedAs(json) ==
  formatting.called /\ formatting.config.use_formatted_response = json

\* The document has a member with the key.
HasKey(key) == \E i \in 1..Len(formatting.response) : formatting.response[i].key = key

\* The text of the document's member with the key.
TextOf(key) ==
  formatting.response[CHOOSE i \in 1..Len(formatting.response) :
                        formatting.response[i].key = key].text

\* Reading a string member back: what stands between its quotes, unescaped.
ReadString(text) == unescape(SubSeq(text, 2, Len(text) - 1))

StartsWith(line, prefix) == Len(line) >= Len(prefix) /\ SubSeq(line, 1, Len(prefix)) = prefix

\* Where the blocks of the plain text start.
BlockMarkers ==
  <<<<"\n", "\n", "-", "-", " ", "E", "x", "p", "l", "a", "n", "a", "t", "i", "o", "n", ":", "\n">>, <<"\n", "\n", "-", "-", " ", "W", "a", "r", "n", "i", "n", "g">>, <<"\n", "\n", "-", "-", " ", "S", "u", "g", "g", "e", "s", "t", "e", "d", " ", "V", "i", "s", "u", "a", "l", "i", "z", "a", "t", "i", "o", "n", ":", "\n">>,
    <<"\n", "\n", "-", "-", " ", "N", "o", "t", "e", ":", " ", "R", "o", "w", " ", "l", "i", "m", "i", "t", " ", "w", "a", "s", " ", "a", "u", "t", "o", "m", "a", "t", "i", "c", "a", "l", "l", "y", " ", "a", "p", "p", "l", "i", "e", "d">>>>

\* The block is to be there: its flag is on and its field is not empty; the
\* note, when the row limit was applied.
BlockShown(b) ==
  CASE b = 1 -> formatting.config.show_explanation /\ formatting.result.explanation # <<>>
    [] b = 2 -> formatting.config.show_warnings /\ formatting.result.warnings # <<>>
    [] b = 3 -> /\ formatting.config.show_suggested_visualization
                /\ formatting.result.suggested_visualization # <<>>
    [] b = 4 -> formatting.result.row_limit_applied

\* The blocks that are to be there are there, in their order, and no other.
BlocksInOrder ==
  /\ \A b \in 1..4 : find(formatting.response, BlockMarkers[b]) <=> BlockShown(b)
  /\ \A b, c \in 1..4 :
       (b < c /\ BlockShown(b) /\ BlockShown(c))
         => findPos(formatting.response, BlockMarkers[b])
              < findPos(formatting.response, BlockMarkers[c])

\* C15: the plain-text output is the generated SQL text first, then the blocks
\* explanation, warnings, suggested visualization and row-limit note in that
\* order, each there only when its flag is on and its field is not empty (the
\* note only when row_limit_applied is true); with every flag off and no row
\* limit applied the output is the SQL text alone.
C15_PlainTextSqlFirst ==
  FormattedAs(FALSE) =>
    /\ StartsWith(formatting.response, formatting.result.generated_query)
    /\ BlocksInOrder
    /\ (\A b \in 1..4 : ~BlockShown(b)) => formatting.response = formatting.result.generated_query

(***************************************************************************)
(* The word-wrapped comment block (spec.md 4.6)                            *)
(***************************************************************************)

RECURSIVE LinesOf(_)
\* The lines of a block: what stands between its line feeds.
LinesOf(block) ==
  IF \E k \in 1..Len(block) : block[k] = "\n"
  THEN LET k == CHOOSE k \in 1..Len(block) :
                  block[k] = "\n" /\ \A q \in 1..(k - 1) : block[q] # "\n"
       IN <<SubSeq(block, 1, k - 1)>> \o LinesOf(SubSeq(block, k + 1, Len(block)))
  ELSE <<block>>

\* The prefix line i of the block was given.
PrefixOf(i) == IF i = 1 THEN wrapping.first_line_prefix ELSE wrapping.continuation_prefix

\* The sequences of a sequence of sequences, one after the other.
RECURSIVE Flatten(_)
Flatten(ss) == IF ss = <<>> THEN <<>> ELSE Head(ss) \o Flatten(Tail(ss))

\* The words of the lines, each line without its prefix.
WordsOfLines(lines) ==
  Flatten([i \in 1..Len(lines) |->
             extract(SubSeq(lines[i], Len(PrefixOf(i)) + 1, Len(lines[i])))])

\* The block wrapped from the text, as its lines (none for an empty block).
Wrapped == IF wrapping.block = <<>> THEN <<>> ELSE LinesOf(wrapping.block)

\* C16: the word-wrapped block holds exactly the words of the text, in their
\* order and each whole on one line; every line starts with the comment
\* prefix; and every line that holds more than one word is no longer than the
\* width (70 or 78 columns).
C16_WrapKeepsWords ==
  wrapping.called # "none" =>
    /\ \A i \in 1..Len(Wrapped) :
         /\ StartsWith(Wrapped[i], PrefixOf(i))
         /\ StartsWith(Wrapped[i], CommentPrefix)
         /\ Len(extract(SubSeq(Wrapped[i], Len(PrefixOf(i)) + 1, Len(Wrapped[i])))) > 1
              => Len(Wrapped[i]) <= wrapping.max_width
    /\ WordsOfLines(Wrapped) = extract(wrapping.text)

\* A text of two words that would fill 71 columns was wrapped at column 70
\* into two lines of one word each.
C16_Witness ==
  /\ wrapping.called = "format_multiline_comment"
  /\ Len(extract(wrapping.text)) = 2
  /\ Len(CommentPrefix) + Len(extract(wrapping.text)[1]) + 1 + Len(extract(wrapping.text)[2])
       = DefaultCommentWidth + 1
  /\ Len(Wrapped) = 2

(***************************************************************************)
(* The provider list: overrides, reset, uniqueness, order (spec.md 4.1)    *)
(***************************************************************************)

\* The entries a configuration has for provider p.
Entries(cfg, p) ==
  {cfg.providers[i] : i \in {j \in 1..Len(cfg.providers) : cfg.providers[j].provider = p}}

\* What C17 says the effective configuration has for provider p, the
\* override of p being key.
EffectiveEntries(p, key) ==
  IF key = NULL \/ key = "" THEN Entries(base_config_, p)
  ELSE IF Entries(base_config_, p) # {}
  THEN {[e EXCEPT !.api_key = key] : e \in Entries(base_config_, p)}
  ELSE {[provider |-> p,
         api_key |-> key,
         default_model |-> getProviderDefaultConfigValues(p).default_model,
         default_max_tokens |-> getProviderDefaultConfigValues(p).default_max_tokens,
         default_temperature |-> getProviderDefaultConfigValues(p).default_temperature,
         api_endpoint |-> getProviderDefaultConfigValues(p).api_endpoint]}

\* C17: after applyGucOverrides, for each provider kind on its own: with a
\* null or empty override the effective entry is the base entry (none when
\* the base has none); with a non-empty override and a base entry it is the
\* base entry with only api_key replaced; with a non-empty override and no
\* base entry it is the kind's built-in defaults with the given credential.
C17_OverrideFrame ==
  Applied => \A p \in KnownProviders : Entries(config_, p) = EffectiveEntries(p, last.o[Slot(p)])

\* One call left the OpenAI entry of the file as it is for an empty string,
\* and made an Anthropic entry, which the file does not have, from a credential.
C17_Witness ==
  /\ Applied
  /\ last.o[Slot("OPENAI")] = ""
  /\ Entries(base_config_, "OPENAI") # {}
  /\ Entries(config_, "OPENAI") = Entries(base_config_, "OPENAI")
  /\ last.o[Slot("ANTHROPIC")] \notin {NULL, ""}
  /\ Entries(base_config_, "ANTHROPIC") = {}
  /\ Entries(config_, "ANTHROPIC") # {}

\* What a fresh load of the file of the home directory leaves.
FreshlyLoaded ==
  IF ~home_ok THEN config_' = Configuration /\ ~config_loaded_'
  ELSE IF file = Missing THEN last'.ret = "throw" /\ ~config_loaded_'
  ELSE /\ config_' = parseConfig(file).cfg
       /\ config_loaded_' = (parseConfig(file).ret = "true")

\* C18: after reset(), whatever loads and overrides came before it, config_
\* is a default-constructed Configuration and config_loaded_ is false, and the
\* getConfig or getProviderConfig call that follows loads the file afresh.
C18_ResetForgets ==
  [][/\ last'.op = "reset" => (config_' = Configuration /\ ~config_loaded_')
     /\ (last.op = "reset" /\ last'.op \in {"getConfig", "getProviderConfig"})
          => FreshlyLoaded]_vars

\* reset() was called on a loaded configuration that an override had changed.
C18_Witness ==
  /\ last.op = "reset"
  /\ last.was_loaded
  /\ last.was_overridden
  /\ config_ = Configuration
  /\ ~config_loaded_

\* C19: in every state that loadConfig, applyGucOverrides and reset lead to,
\* the provider list has at most one ProviderConfig per provider kind.
C19_OneEntryPerProvider ==
  \A p \in KnownProviders :
    /\ Cardinality({i \in 1..Len(config_.providers) : config_.providers[i].provider = p}) <= 1
    /\ Cardinality({i \in 1..Len(base_config_.providers) :
                      base_config_.providers[i].provider = p}) <= 1

\* A provider section that appears twice in the file, overridden as well.
C19_Witness ==
  /\ Applied
  /\ file = DocRepeatedSection
  /\ base_config_ = FileConfig
  /\ \E p \in KnownProviders :
       /\ last.o[Slot(p)] \notin {NULL, ""}
       /\ Cardinality({i \in 1..Len(DocRepeatedSection) :
                         DocRepeatedSection[i] = Sec(providerToString(p))}) > 1
       /\ Cardinality(Entries(config_, p)) = 1

RECURSIVE Declared(_, _, _)
\* The provider kinds of a file in the order in which a key of their section
\* first appears; kinds are those met so far, name the current section.
Declared(lines, name, kinds) ==
  IF lines = <<>> THEN kinds
  ELSE IF Head(lines).t = "section" THEN Declared(Tail(lines), Head(lines).name, kinds)
  ELSE IF /\ Head(lines).t = "kv"
          /\ stringToProvider(name) \in KnownProviders
          /\ \A i \in 1..Len(kinds) : kinds[i] # stringToProvider(name)
  THEN Declared(Tail(lines), name, Append(kinds, stringToProvider(name)))
  ELSE Declared(Tail(lines), name, kinds)

\* The provider kinds of a provider list, in its order.
KindsOf(providers) == [i \in 1..Len(providers) |-> providers[i].provider]

\* C20: after a successful parse the default provider is the first entry of
\* the provider list, and the list is in the order in which the provider
\* sections first appear in the file.
C20_FileOrder ==
  (last.op \in {"loadConfig", "loadConfigHome"} /\ last.ret = "true") =>
    /\ config_.default_provider = config_.providers[1]
    /\ KindsOf(config_.providers) = Declared(file, "", <<>>)

(***************************************************************************)
(* The lines of the configuration file (spec.md, configuration parsing)    *)
(***************************************************************************)

\* The value of a key = value line: what follows the first '=', trimmed.
ValueOf(s) ==
  IF find(s, <<"=">>) THEN trim(SubSeq(s, findPos(s, <<"=">>) + 2, Len(s))) ELSE <<>>

\* The backslashes that stand right before character c of v.
BackslashesBefore(v, c) ==
  CHOOSE n \in 0..(c - 1) :
    /\ \A k \in (c - n)..(c - 1) : v[k] = "\\"
    /\ c - n = 1 \/ v[c - n - 1] # "\\"

\* The value opens with a quote and no later quote of the same kind closes
\* it (a quote behind an odd number of backslashes is escaped).
Unclosed(s) ==
  /\ lineOf(s).t \notin {"section"}
  /\ s # TooLong
  /\ Len(ValueOf(s)) >= 2
  /\ ValueOf(s)[1] \in {"\"", "'"}
  /\ \A c \in 2..Len(ValueOf(s)) :
       ValueOf(s)[c] = ValueOf(s)[1] => BackslashesBefore(ValueOf(s), c) % 2 = 1

\* What loading the lines `content` leaves in a process that has loaded nothing.
LoadOf(content) == loadConfigPath(InitialState, linesOf(content))

\* The load of the model's file left what the load of `content` leaves.
SameAsLoadOf(content) ==
  /\ inifile.ret = LoadOf(content).ret
  /\ inifile.config_ = LoadOf(content).st.config_
  /\ inifile.config_loaded_ = LoadOf(content).st.config_loaded_

\* C21: a key whose value opens with a quote that is never closed is
\* skipped: the load does what it does for the file without that line, so
\* the parse succeeds when the rest parses and every other key takes effect.
C21_UnclosedQuoteSkipped ==
  (inifile.called /\ \E i \in 1..Len(inifile.lines) : Unclosed(inifile.lines[i]))
    => SameAsLoadOf(SelectSeq(inifile.lines, LAMBDA s : ~Unclosed(s)))

\* The section the line i of the file is read in, "" before any header.
SectionAt(content, i) ==
  IF \A k \in 1..(i - 1) : lineOf(content[k]).t # "section" THEN ""
  ELSE lineOf(content[CHOOSE k \in 1..(i - 1) :
                        /\ lineOf(content[k]).t = "section"
                        /\ \A j \in (k + 1)..(i - 1) : lineOf(content[j]).t # "section"]).name

\* The keys std::stoi and std::stod read.
NumericKey(section_name, key) ==
  \/ section_name = "general" /\ key \in {"request_timeout_ms", "max_retries"}
  \/ section_name = "query" /\ key \in {"default_limit", "max_query_length"}
  \/ section_name \in {"openai", "anthropic", "gemini"} /\ key \in {"max_tokens", "temperature"}

\* A text that is not a number: it is empty or has a character that is
\* neither a digit nor the point.
NonNumeric(v) ==
  v = <<>> \/ \E k \in 1..Len(v) : v[k] \notin {"0", "1", "2", "3", "4", "5", "6", "7", "8", "9", "."}

\* Line i gives a numeric key of its section a value that is not a number.
NonNumericAt(content, i) ==
  /\ lineOf(content[i]).t = "kv"
  /\ NumericKey(SectionAt(content, i), lineOf(content[i]).key)
  /\ NonNumeric(withoutComment(ValueOf(content[i])))

\* C22: a value that is not a number, given to a numeric key, fails the
\* load of the whole file: the load does not return true and does not set
\* config_loaded_.
C22_NonNumericFails ==
  (inifile.called /\ \E i \in 1..Len(inifile.lines) : NonNumericAt(inifile.lines, i))
    => inifile.ret # "true" /\ ~inifile.config_loaded_

\* Line i is one the parse passes over: the header of a section that is
\* not a known one, or a well-formed key = value line inside such a section
\* or before any header.
Ignored(content, i) ==
  \/ lineOf(content[i]).t = "section" /\ ~isValidSection(lineOf(content[i]).name)
  \/ lineOf(content[i]).t = "kv" /\ ~isValidSection(SectionAt(content, i))

\* The file without the lines the parse passes over.
Kept(content) ==
  LET at[i \in 0..Len(content)] ==
        IF i = 0 THEN <<>>
        ELSE IF Ignored(content, i) THEN at[i - 1] ELSE Append(at[i - 1], content[i])
  IN at[Len(content)]

\* C23: headers of unknown sections, well-formed keys inside such a section
\* and well-formed keys before any header never fail the parse and change no
\* value: the load leaves what it leaves for the file without those lines.
C23_IgnoredLines == inifile.called => SameAsLoadOf(Kept(inifile.lines))

\* A key before any header, the header of an unknown section and, inside
\* it, a numeric key with a value that is no number: the load succeeds and
\* leaves the defaults.
C23_Witness ==
  /\ inifile.called
  /\ Len(inifile.lines) = 3
  /\ lineOf(inifile.lines[1]).t = "kv"
  /\ lineOf(inifile.lines[2]) = Sec("bogus")
  /\ lineOf(inifile.lines[3]) = Kv("default_limit", "abc")
  /\ Kept(inifile.lines) = <<>>
  /\ inifile.ret = "true"
  /\ inifile.config_ = Configuration

(***************************************************************************)
(* AIClientFactory                                                         *)
(***************************************************************************)

\* A createClient call was made and the library made the client.
ClientMade == creation.called = "createClient" /\ ~creation.threw

\* C24: createClient for OpenAI, Anthropic and Gemini with a non-empty API
\* key succeeds (the library having made the client) and reports the
\* default_model of the provider's configuration; with no configuration, or
\* one with an empty default_model, it reports the built-in default model
\* of the requested provider.
C24_ModelOfTheProvider ==
  (ClientMade /\ creation.provider \in KnownProviders /\ creation.api_key # "")
    => /\ creation.result.success
       /\ creation.result.model_name
            = IF creation.provider_config # <<>>
                 /\ creation.provider_config[1].default_model # ""
              THEN creation.provider_config[1].default_model
              ELSE getProviderDefaultConfigValues(creation.provider).default_model

\* C25: createClient answers success = false with an error message for an
\* empty API key, whatever the provider, and for a provider value that is
\* not one of the known providers.
C25_RejectsUnusableInput ==
  (/\ creation.called = "createClient"
   /\ creation.api_key = "" \/ creation.provider \notin KnownProviders)
    => ~creation.result.success /\ creation.result.error_message # ""

(***************************************************************************)
(* What the accessors return after a load                                  *)
(***************************************************************************)

\* Provider p is configured: a section of the loaded file declares it, or a
\* session override has added its entry to the effective configuration.
Configured(p) ==
  \/ \E i \in 1..Len(Declared(file, "", <<>>)) : Declared(file, "", <<>>)[i] = p
  \/ Entries(base_config_, p) = {} /\ Entries(config_, p) # {}

\* C26: after a successful load getProviderConfig(p) returns an entry
\* exactly for the providers that are configured, and null for every other.
C26_EntryIffConfigured ==
  (last.op = "getProviderConfig" /\ last.ret # "throw" /\ config_loaded_)
    => (last.idx # 0 <=> Configured(last.arg))

\* C28: a loadConfig call that returns false leaves config_ and
\* config_loaded_ as they were before the call.
C28_FailedLoadKeepsConfig ==
  [][(last'.op \in {"loadConfig", "loadConfigHome"} /\ last'.ret = "false")
       => (config_' = config_ /\ config_loaded_' = config_loaded_)]_vars

C29_NeverRaises ==
  translation.called # "none" => translation.message.text # "<std::out_of_range>"

(***************************************************************************)
(* SPIConnection                                                           *)
(***************************************************************************)

\* The live objects that hold the connection c as connected.
Holders(c) ==
  {o \in SpiObjects : /\ spi.objects[o].alive
                      /\ isConnected(spi.objects[o])
                      /\ spi.objects[o].conn = c}

\* C30: across construction, move construction, move assignment and
\* destruction SPI_finish is called exactly once for every successful
\* SPI_connect and never for a failed one: no call is made by an object
\* that answers for no connection, no connection is finished twice, every
\* connection is either finished or held by exactly one live connected
\* object, and a moved-from object reports not connected and makes no
\* SPI_finish call.
C30_FinishExactlyOnce ==
  /\ \A i \in 1..Len(spi.finished) : spi.finished[i] \in 1..spi.connects
  /\ \A i, j \in 1..Len(spi.finished) : i # j => spi.finished[i] # spi.finished[j]
  /\ \A c \in 1..spi.connects :
       IF \E i \in 1..Len(spi.finished) : spi.finished[i] = c
       THEN Holders(c) = {}
       ELSE Cardinality(Holders(c)) = 1
  /\ \A o \in SpiObjects :
       /\ (spi.objects[o].alive /\ spi.objects[o].moved) => ~isConnected(spi.objects[o])
       /\ (spi.objects[o].alive /\ isConnected(spi.objects[o])) => spi.objects[o].conn # 0
  /\ spi.last.was_moved => spi.last.finishes = 0

\* A connection that was moved to another object has been finished by that
\* object's destructor, the moved-from object is still alive, and a failed
\* SPI_connect took place.
C30_Witness ==
  /\ spi.last.op = "destruct" /\ spi.last.by_move /\ spi.last.finishes = 1
  /\ \E o \in SpiObjects : spi.objects[o].alive /\ spi.objects[o].moved
  /\ spi.failures > 0
  /\ Len(spi.finished) = spi.connects

====
